---- MODULE Spec2Model ----
(***************************************************************************)
(* Trip matching of the travel-companion platform.                         *)
(*                                                                         *)
(* Source: src/src/app/api/groups/[id]/combined-route/route.ts             *)
(*   calculateDistance, distanceToRoute, getMatchingConfig,                *)
(*   calculateMatchScore and the trip-creation handler POST.               *)
(*                                                                         *)
(* Representation.                                                         *)
(*  - A coordinate is the pair <<lat, lon>>; null is the empty tuple.      *)
(*    All modelled points lie on the meridian lon = 0 and latitudes are    *)
(*    counted in arcs of one kilometre (180 / (6371 * pi) degrees), so     *)
(*    the haversine formula of calculateDistance reduces to |lat1 - lat2|  *)
(*    kilometres.                                                          *)
(*  - A nullable array (routeGeometry) is null or <<array>>.               *)
(*  - A string is the sequence of its characters, so that toLowerCase and  *)
(*    trim are computed and not assumed.                                   *)
(*  - A radius threshold is the fraction <<num, den>> kilometres, because  *)
(*    ROUTE_PROXIMITY_KM = matchRadius / 2 need not be whole.              *)
(***************************************************************************)
EXTENDS Integers, Sequences, FiniteSets, TLC

VARIABLES
    trips,        \* table trips, in id order (id = position)
    tripMatches,  \* table tripMatches, in insertion order
    now,          \* the clock read by new Date()
    response,     \* the response of the latest trip-creation request
    pass,         \* the latest matching pass: its trip, the scored candidates, its batch
    radiusSent,   \* body.matchRadius of the latest trip-creation request, null if absent
    received,     \* <<session, requestBody>> of the latest trip-creation request
    calls,        \* the awaited calls of the latest trip-creation request, in order,
                  \* each <<service, whether it answered with a result>>
    tripA,        \* calculateMatchScore: first argument
    tripB,        \* calculateMatchScore: second argument
    matchResult,  \* calculateMatchScore: returned MatchResult, or null before the call
    requests,     \* trip-creation requests in flight, each at its own await
    osrmRoutes,         \* route analyzer: what calculateAlternativeRoutes returned
    alternativeRoutes,  \* route analyzer: the candidates analyzed, the fallback included
    routeRequest,       \* route analyzer: the body of the request
    routeResponse,      \* route analyzer: the returned routes, or null before the call
    memberTrips,        \* combined route: the active trips of the group's members
    osrmExchange,       \* combined route: the request sent to the routing provider and
                        \* how the provider took it, or null when none was sent
    combinedResponse,   \* combined route: the response of GET, or null before the call
    recipients,         \* notifier: the argument of sendBulkWhatsApp, or null before the call
    twilio,             \* notifier: twilioClient and twilioWhatsAppNumber of the deployment
    deliveries,         \* notifier: per recipient, where its send stands
    bulkResult,         \* notifier: what sendBulkWhatsApp returned, or null
    emergencyAlerts,    \* table emergencyAlerts, in insertion order
    alertRequest,       \* emergency alert: the latest request and what the database held
    alertCalls,         \* emergency alert: the awaited calls of the latest request, in order,
                        \* each <<call, rows read, id inserted or messages delivered>>
    alertResponse       \* emergency alert: the response of the latest request

dbVars == <<trips, tripMatches, now, response, pass, calls, radiusSent, received>>
scoreVars == <<tripA, tripB, matchResult>>
concVars == <<requests>>
routeVars == <<osrmRoutes, alternativeRoutes, routeRequest, routeResponse>>
combinedVars == <<memberTrips, osrmExchange, combinedResponse>>
notifyVars == <<recipients, twilio, deliveries, bulkResult>>
alertVars == <<emergencyAlerts, alertRequest, alertCalls, alertResponse>>
vars == <<trips, tripMatches, now, response, pass, calls, radiusSent, received, tripA, tripB, matchResult,
          requests, osrmRoutes, alternativeRoutes, routeRequest, routeResponse,
          memberTrips, osrmExchange, combinedResponse, recipients, twilio, deliveries,
          bulkResult,
          emergencyAlerts, alertRequest, alertCalls, alertResponse>>

null == <<>>

(***************************************************************************)
(* Bounds of the model.                                                    *)
(***************************************************************************)
MaxPos == 2       \* latitudes 0..MaxPos (km along the meridian)
MaxRadius == 3    \* match radii 1..MaxRadius drawn for the scorer
MaxTrips == 2     \* rows of the trips table, requests and failures of any kind
MaxScanned == 2   \* candidates one matching pass can find, services answering

(***************************************************************************)
(* Strings.                                                                *)
(***************************************************************************)
\* String.prototype.toLowerCase, on the letters the model uses
LowerChar(c) ==
    CASE c = "G" -> "g"
      [] c = "P" -> "p"
      [] c = "C" -> "c"
      [] c = "B" -> "b"
      [] c = "V" -> "v"
      [] OTHER -> c

toLowerCase(s) == [i \in 1..Len(s) |-> LowerChar(s[i])]

RECURSIVE trimStart(_)
trimStart(s) ==
    IF s # <<>> /\ Head(s) = " " THEN trimStart(Tail(s)) ELSE s

RECURSIVE trimEnd(_)
trimEnd(s) ==
    IF s # <<>> /\ s[Len(s)] = " " THEN trimEnd(SubSeq(s, 1, Len(s) - 1)) ELSE s

\* String.prototype.trim
trim(s) == trimEnd(trimStart(s))

(***************************************************************************)
(* Geometry utilities.                                                     *)
(***************************************************************************)
Abs(x) == IF x < 0 THEN -x ELSE x

\* Math.min
Min(a, b) == IF b < a THEN b ELSE a

Coord(lat) == <<lat, 0>>

\* Haversine distance in km; on one meridian it is the latitude difference.
calculateDistance(start, end) == Abs(end[1] - start[1])

\* let minDistance = Infinity
Infinity == 1000000

RECURSIVE distanceToRouteFrom(_, _, _, _)
distanceToRouteFrom(point, routeCoordinates, i, minDistance) ==
    IF i > Len(routeCoordinates) THEN minDistance
    ELSE LET distance == calculateDistance(point, routeCoordinates[i])
         IN distanceToRouteFrom(point, routeCoordinates, i + 1,
                IF distance < minDistance THEN distance ELSE minDistance)

\* Minimum distance from a point to the vertices of a route
distanceToRoute(point, routeCoordinates) ==
    distanceToRouteFrom(point, routeCoordinates, 1, Infinity)

(***************************************************************************)
(* Matching configuration.                                                 *)
(***************************************************************************)
\* Variant: the route threshold is the whole radius instead of half of it
getMatchingConfigWholeRadius(matchRadius) ==
    [ SOURCE_RADIUS_KM      |-> <<matchRadius, 1>>,
      DESTINATION_RADIUS_KM |-> <<matchRadius, 1>>,
      ROUTE_PROXIMITY_KM    |-> <<matchRadius, 1>>,
      MIN_MATCH_SCORE       |-> 50 ]

getMatchingConfig(matchRadius) ==
    [ SOURCE_RADIUS_KM      |-> <<matchRadius, 1>>,
      DESTINATION_RADIUS_KM |-> <<matchRadius, 1>>,
      ROUTE_PROXIMITY_KM    |-> <<matchRadius, 2>>,
      MIN_MATCH_SCORE       |-> 50 ]

\* Variant: a distance equal to the radius is outside it
WithinRadiusStrict(distance, radius) == distance * radius[2] < radius[1]

\* distance <= radius, radius = <<num, den>> km
WithinRadius(distance, radius) == distance * radius[2] <= radius[1]

\* Inputs on which the double-precision value of weight * (1 - distance / radius)
\* falls just below the tie k + 0.5 that the exact quotient hits, so that
\* Math.round goes down: <<weight, num, den, distance>>, for radii up to 10.
FloatBelowTie ==
    { <<45, 6, 1, 5>>, <<45, 10, 1, 3>>, <<45, 10, 1, 9>>, <<35, 10, 1, 9>> }

\* Variant: the distance is not scaled by the radius
proximityScoreUnscaled(weight, distance, radius) == weight * (1 - distance)

\* Math.round(weight * (1 - distance / radius)) for distance <= radius:
\* the nearest integer, a tie going up.
proximityScore(weight, distance, radius) ==
    LET num == radius[1]
        den == radius[2]
        exact == (2 * weight * (num - distance * den) + num) \div (2 * num)
    IN IF <<weight, num, den, distance>> \in FloatBelowTie THEN exact - 1 ELSE exact

\* Number.prototype.toFixed(1) of a whole number of km: <<units, tenths>>
toFixed1(distance) == <<distance, 0>>

(***************************************************************************)
(* calculateMatchScore, rule by rule.  acc is the triple of locals         *)
(* (score, reasons, details) the function accumulates.                     *)
(***************************************************************************)
EmptyDetails == [k \in {} |-> 0]

SetDetail(details, key, value) ==
    [k \in (DOMAIN details) \cup {key} |-> IF k = key THEN value ELSE details[k]]

\* Variant: the source distance is recorded only when the rule fires
Rule1DetailWhenFired(acc, A, B, MATCHING_CONFIG) ==
    IF A.sourceCoords # null /\ B.sourceCoords # null
    THEN LET sourceDistance == calculateDistance(A.sourceCoords, B.sourceCoords)
         IN IF WithinRadius(sourceDistance, MATCHING_CONFIG.SOURCE_RADIUS_KM)
            THEN [ score   |-> acc.score
                                + proximityScore(45, sourceDistance, MATCHING_CONFIG.SOURCE_RADIUS_KM),
                   reasons |-> Append(acc.reasons,
                                <<"starting_points_nearby", toFixed1(sourceDistance)>>),
                   details |-> SetDetail(acc.details, "sourceDistance", sourceDistance) ]
            ELSE acc
    ELSE acc

\* Rule 1: sources within radius (45 points)
Rule1(acc, A, B, MATCHING_CONFIG) ==
    IF A.sourceCoords # null /\ B.sourceCoords # null
    THEN LET sourceDistance == calculateDistance(A.sourceCoords, B.sourceCoords)
             det == SetDetail(acc.details, "sourceDistance", sourceDistance)
         IN IF WithinRadius(sourceDistance, MATCHING_CONFIG.SOURCE_RADIUS_KM)
            THEN [ score   |-> acc.score
                                + proximityScore(45, sourceDistance, MATCHING_CONFIG.SOURCE_RADIUS_KM),
                   reasons |-> Append(acc.reasons,
                                <<"starting_points_nearby", toFixed1(sourceDistance)>>),
                   details |-> det ]
            ELSE [acc EXCEPT !.details = det]
    ELSE acc

\* Variant: the destinations rule weighs 40
Rule2Weight40(acc, A, B, MATCHING_CONFIG) ==
    IF A.destCoords # null /\ B.destCoords # null
    THEN LET destDistance == calculateDistance(A.destCoords, B.destCoords)
             det == SetDetail(acc.details, "destinationDistance", destDistance)
         IN IF WithinRadius(destDistance, MATCHING_CONFIG.DESTINATION_RADIUS_KM)
            THEN [ score   |-> acc.score
                                + proximityScore(40, destDistance, MATCHING_CONFIG.DESTINATION_RADIUS_KM),
                   reasons |-> Append(acc.reasons,
                                <<"destinations_nearby", toFixed1(destDistance)>>),
                   details |-> det ]
            ELSE [acc EXCEPT !.details = det]
    ELSE acc

\* Rule 2: destinations within radius (45 points)
Rule2(acc, A, B, MATCHING_CONFIG) ==
    IF A.destCoords # null /\ B.destCoords # null
    THEN LET destDistance == calculateDistance(A.destCoords, B.destCoords)
             det == SetDetail(acc.details, "destinationDistance", destDistance)
         IN IF WithinRadius(destDistance, MATCHING_CONFIG.DESTINATION_RADIUS_KM)
            THEN [ score   |-> acc.score
                                + proximityScore(45, destDistance, MATCHING_CONFIG.DESTINATION_RADIUS_KM),
                   reasons |-> Append(acc.reasons,
                                <<"destinations_nearby", toFixed1(destDistance)>>),
                   details |-> det ]
            ELSE [acc EXCEPT !.details = det]
    ELSE acc

\* Variant: only A's destination name is trimmed
Rule3TrimsA(acc, A, B) ==
    IF trim(toLowerCase(A.destination)) = toLowerCase(B.destination)
    THEN [acc EXCEPT !.score = @ + 10,
                     !.reasons = Append(@, <<"same_destination_name">>)]
    ELSE acc

\* Rule 3: exact same destination name (10 points)
Rule3(acc, A, B) ==
    IF trim(toLowerCase(A.destination)) = trim(toLowerCase(B.destination))
    THEN [acc EXCEPT !.score = @ + 10,
                     !.reasons = Append(@, <<"same_destination_name">>)]
    ELSE acc

\* Rule 4: B's source along A's route (pickup, 40 points)
Rule4(acc, A, B, MATCHING_CONFIG) ==
    IF B.sourceCoords # null /\ A.routeGeometry # null /\ Len(A.routeGeometry[1]) > 0
    THEN LET distanceToARoute == distanceToRoute(B.sourceCoords, A.routeGeometry[1])
         IN IF WithinRadius(distanceToARoute, MATCHING_CONFIG.ROUTE_PROXIMITY_KM)
            THEN [ score   |-> acc.score
                                + proximityScore(40, distanceToARoute, MATCHING_CONFIG.ROUTE_PROXIMITY_KM),
                   reasons |-> Append(acc.reasons,
                                <<"can_pickup_along_route", toFixed1(distanceToARoute)>>),
                   details |-> SetDetail(acc.details, "routeProximity", distanceToARoute) ]
            ELSE acc
    ELSE acc

\* Rule 5: B's destination along A's route (dropoff, 40 points)
Rule5(acc, A, B, MATCHING_CONFIG) ==
    IF B.destCoords # null /\ A.routeGeometry # null /\ Len(A.routeGeometry[1]) > 0
    THEN LET distanceToARoute == distanceToRoute(B.destCoords, A.routeGeometry[1])
         IN IF WithinRadius(distanceToARoute, MATCHING_CONFIG.ROUTE_PROXIMITY_KM)
            THEN [acc EXCEPT
                    !.score = @ + proximityScore(40, distanceToARoute, MATCHING_CONFIG.ROUTE_PROXIMITY_KM),
                    !.reasons = Append(@, <<"can_dropoff_along_route", toFixed1(distanceToARoute)>>)]
            ELSE acc
    ELSE acc

\* Rule 6: A's source along B's route (reverse pickup, 35 points)
Rule6(acc, A, B, MATCHING_CONFIG) ==
    IF A.sourceCoords # null /\ B.routeGeometry # null /\ Len(B.routeGeometry[1]) > 0
    THEN LET distanceToBRoute == distanceToRoute(A.sourceCoords, B.routeGeometry[1])
         IN IF WithinRadius(distanceToBRoute, MATCHING_CONFIG.ROUTE_PROXIMITY_KM)
            THEN [acc EXCEPT
                    !.score = @ + proximityScore(35, distanceToBRoute, MATCHING_CONFIG.ROUTE_PROXIMITY_KM),
                    !.reasons = Append(@, <<"they_can_pickup", toFixed1(distanceToBRoute)>>)]
            ELSE acc
    ELSE acc

\* Rule 7: A's destination along B's route (reverse dropoff, 35 points)
Rule7(acc, A, B, MATCHING_CONFIG) ==
    IF A.destCoords # null /\ B.routeGeometry # null /\ Len(B.routeGeometry[1]) > 0
    THEN LET distanceToBRoute == distanceToRoute(A.destCoords, B.routeGeometry[1])
         IN IF WithinRadius(distanceToBRoute, MATCHING_CONFIG.ROUTE_PROXIMITY_KM)
            THEN [acc EXCEPT
                    !.score = @ + proximityScore(35, distanceToBRoute, MATCHING_CONFIG.ROUTE_PROXIMITY_KM),
                    !.reasons = Append(@, <<"they_can_dropoff", toFixed1(distanceToBRoute)>>)]
            ELSE acc
    ELSE acc

\* Variant: the date rule sets the score instead of adding to it
Rule8Overwrites(acc, A, B) ==
    IF A.travelDate = B.travelDate
    THEN [acc EXCEPT !.score = 30,
                     !.reasons = Append(@, <<"same_travel_date">>)]
    ELSE acc

\* Rule 8: same travel date (30 points)
Rule8(acc, A, B) ==
    IF A.travelDate = B.travelDate
    THEN [acc EXCEPT !.score = @ + 30,
                     !.reasons = Append(@, <<"same_travel_date">>)]
    ELSE acc

\* Rule 9: same transport mode (20 points)
Rule9(acc, A, B) ==
    IF toLowerCase(A.transportMode) = toLowerCase(B.transportMode)
    THEN [acc EXCEPT !.score = @ + 20,
                     !.reasons = Append(@, <<"same_transport_mode">>)]
    ELSE acc

\* Variant: the larger radius governs
effectiveMatchRadiusMax(A, B) ==
    IF A.matchRadius >= B.matchRadius THEN A.matchRadius ELSE B.matchRadius

\* const effectiveMatchRadius = Math.min(tripA.matchRadius, tripB.matchRadius)
effectiveMatchRadius(A, B) == Min(A.matchRadius, B.matchRadius)

\* The locals after the first n rules
AfterRule(n, A, B) ==
    LET MATCHING_CONFIG == getMatchingConfig(effectiveMatchRadius(A, B))
        a0 == [score |-> 0, reasons |-> <<>>, details |-> EmptyDetails]
        a1 == Rule1(a0, A, B, MATCHING_CONFIG)
        a2 == Rule2(a1, A, B, MATCHING_CONFIG)
        a3 == Rule3(a2, A, B)
        a4 == Rule4(a3, A, B, MATCHING_CONFIG)
        a5 == Rule5(a4, A, B, MATCHING_CONFIG)
        a6 == Rule6(a5, A, B, MATCHING_CONFIG)
        a7 == Rule7(a6, A, B, MATCHING_CONFIG)
        a8 == Rule8(a7, A, B)
        a9 == Rule9(a8, A, B)
    IN CASE n = 0 -> a0 [] n = 1 -> a1 [] n = 2 -> a2 [] n = 3 -> a3
         [] n = 4 -> a4 [] n = 5 -> a5 [] n = 6 -> a6 [] n = 7 -> a7
         [] n = 8 -> a8 [] OTHER -> a9

\* Variant: a missing source on A's side ends the scoring
calculateMatchScoreBailsOut(A, B) ==
    IF A.sourceCoords = null THEN AfterRule(0, A, B) ELSE AfterRule(9, A, B)

calculateMatchScore(A, B) == AfterRule(9, A, B)

(***************************************************************************)
(* Numbers and strings: template literals, split and parseFloat, parseInt. *)
(***************************************************************************)
Digits == <<"0", "1", "2", "3", "4", "5", "6", "7", "8", "9">>

IsDigit(c) == \E d \in 1..10 : Digits[d] = c

DigitValue(c) == (CHOOSE d \in 1..10 : Digits[d] = c) - 1

\* String(n) for a whole number n >= 0
RECURSIVE NumToStr(_)
NumToStr(n) ==
    IF n < 10 THEN <<Digits[n + 1]>>
    ELSE Append(NumToStr(n \div 10), Digits[(n % 10) + 1])

\* The value of the leading digits of s[i..], given the value acc read so far
RECURSIVE LeadingDigits(_, _, _)
LeadingDigits(s, i, acc) ==
    IF i <= Len(s) /\ IsDigit(s[i])
    THEN LeadingDigits(s, i + 1, 10 * acc + DigitValue(s[i]))
    ELSE acc

\* The result of a failed numeric parse
NaN == -1000000

isNaN(x) == x = NaN

\* parseFloat / parseInt of a string of an unsigned whole number
parseFloat(s) ==
    IF s # <<>> /\ IsDigit(s[1]) THEN LeadingDigits(s, 1, 0) ELSE NaN

\* parseInt(matchRadius) of the body value: the whole number <<"number", n>>,
\* the positive number n / d <<"fraction", n, d>>, whose decimal notation
\* parseInt reads up to the point, or <<"string", s>>
parseInt(v) ==
    CASE v[1] = "number"   -> v[2]
      [] v[1] = "fraction" -> v[2] \div v[3]
      [] OTHER             -> parseFloat(trimStart(v[2]))

\* `${coords[0]},${coords[1]}`
formatCoordinates(coords) == NumToStr(coords[1]) \o <<",">> \o NumToStr(coords[2])

\* s.split(',') for a string holding one comma
split(s) ==
    LET k == CHOOSE i \in 1..Len(s) : s[i] = "," /\ \A j \in 1..(i - 1) : s[j] # ","
    IN <<SubSeq(s, 1, k - 1), SubSeq(s, k + 1, Len(s))>>

\* coordinates ? coordinates.split(',').map(parseFloat) : null
parseCoordinates(coordinates) ==
    IF coordinates = null THEN null
    ELSE LET parts == split(coordinates)
         IN <<parseFloat(parts[1]), parseFloat(parts[2])>>

(***************************************************************************)
(* External services of the trip-creation handler.                         *)
(***************************************************************************)
Goa == <<"G", "o", "a">>
Vasco == <<"V", "a", "s", "c", "o">>
Ponda == <<"P", "o", "n", "d", "a">>
Pune == <<"P", "u", "n", "e">>
car == <<"c", "a", "r">>
bus == <<"b", "u", "s">>
day1 == <<"d", "1">>
day2 == <<"d", "2">>

\* What the geocoding service knows: place name -> latitude (km), longitude 0
Gazetteer(location) ==
    CASE toLowerCase(location) = toLowerCase(Goa)   -> Coord(0)
      [] toLowerCase(location) = toLowerCase(Vasco) -> Coord(1)
      [] toLowerCase(location) = toLowerCase(Ponda) -> Coord(3)
      [] toLowerCase(location) = toLowerCase(Pune)  -> Coord(6)
      [] OTHER -> null

\* geocode(location): [lat, lon], or null when the service fails or finds nothing
geocode(location, serviceUp) ==
    IF serviceUp THEN Gazetteer(location) ELSE null

\* The geometry OSRM answers with, as [lon, lat] pairs: the straight path from
\* start to end with a vertex every two kilometres, and the end point.
RECURSIVE OsrmGeometry(_, _)
OsrmGeometry(from, to) ==
    IF Abs(to - from) <= 2 THEN IF from = to THEN <<<<0, from>>>> ELSE <<<<0, from>>, <<0, to>>>>
    ELSE <<<<0, from>>>> \o OsrmGeometry(IF to > from THEN from + 2 ELSE from - 2, to)

\* What the routing service does with a request
RouterOutcomes == {"error", "NoRoute", "OkEmpty", "Ok"}

\* The parsed answer of the routing service, or null when the request failed
osrmFetch(start, end, outcome) ==
    CASE outcome = "error"   -> null
      [] outcome = "NoRoute" -> <<[code |-> "NoRoute", routes |-> <<>>]>>
      [] outcome = "OkEmpty" -> <<[code |-> "Ok", routes |-> <<>>]>>
      [] OTHER -> <<[ code   |-> "Ok",
                      routes |-> <<[coordinates |-> OsrmGeometry(start[1], end[1])]>> ]>>

\* calculateRouteGeometry: the coordinates as [lat, lon], or null
calculateRouteGeometry(start, end, outcome) ==
    LET answer == osrmFetch(start, end, outcome)
    IN IF answer = null THEN null
       ELSE LET data == answer[1]
            IN IF data.code # "Ok" \/ Len(data.routes) = 0 THEN null
               ELSE LET geometry == data.routes[1].coordinates
                    IN <<[i \in 1..Len(geometry) |-> <<geometry[i][2], geometry[i][1]>>]>>

(***************************************************************************)
(* The trip-creation handler POST.                                         *)
(***************************************************************************)
Users == {"u1", "u2"}

Response(status, code, tripId) == [status |-> status, code |-> code, tripId |-> tripId]

\* sanitizedData
sanitize(body) ==
    [ source           |-> trim(body.source),
      destination      |-> trim(body.destination),
      travelDate       |-> trim(body.travelDate),
      travelTime       |-> trim(body.travelTime),
      transportMode    |-> trim(body.transportMode),
      optimizationMode |-> trim(body.optimizationMode),
      matchRadius      |-> IF body.matchRadius # null THEN parseInt(body.matchRadius) ELSE 10 ]

\* potentialMatch.matchRadius || 10
radiusOrDefault(matchRadius) == IF matchRadius = 0 THEN 10 ELSE matchRadius

\* Variant: the query without the owner filter
potentialMatchesOfAnyUser(table, userId) ==
    SelectSeq(table, LAMBDA t : t.status = "active")

\* db.select().from(trips).where(and(eq(status, 'active'), ne(userId, session.user.id)))
potentialMatchesOf(table, userId) ==
    SelectSeq(table, LAMBDA t : t.status = "active" /\ t.userId # userId)

\* Variant: the bar itself does not qualify
meetsThresholdStrict(score, MATCHING_CONFIG) == score > MATCHING_CONFIG.MIN_MATCH_SCORE

\* if (matchResult.score >= MATCHING_CONFIG.MIN_MATCH_SCORE)
meetsThreshold(score, MATCHING_CONFIG) == score >= MATCHING_CONFIG.MIN_MATCH_SCORE

\* Variant: only the record of the new trip is pushed
matchPairOneWay(createdTripId, potentialMatchId, score, matchTimestamp) ==
    << [ tripId |-> createdTripId, matchedTripId |-> potentialMatchId,
         matchScore |-> score, status |-> "pending", createdAt |-> matchTimestamp ] >>

\* The two records pushed for one qualifying candidate
matchPair(createdTripId, potentialMatchId, score, matchTimestamp) ==
    << [ tripId |-> createdTripId, matchedTripId |-> potentialMatchId,
         matchScore |-> score, status |-> "pending", createdAt |-> matchTimestamp ],
       [ tripId |-> potentialMatchId, matchedTripId |-> createdTripId,
         matchScore |-> score, status |-> "pending", createdAt |-> matchTimestamp ] >>

\* The second argument of calculateMatchScore built from a stored trip
candidateInput(potentialMatch) ==
    [ sourceCoords  |-> parseCoordinates(potentialMatch.sourceCoordinates),
      destCoords    |-> parseCoordinates(potentialMatch.destinationCoordinates),
      routeGeometry |-> potentialMatch.routeGeometry,
      destination   |-> potentialMatch.destination,
      travelDate    |-> potentialMatch.travelDate,
      transportMode |-> potentialMatch.transportMode,
      matchRadius   |-> radiusOrDefault(potentialMatch.matchRadius) ]

\* for (const potentialMatch of potentialMatches) { ... }: the locals after the
\* candidates i.., given the scores logged and the records pushed so far
RECURSIVE matchLoop(_, _, _, _, _, _)
matchLoop(potentialMatches, i, newTrip, createdTripId, matchTimestamp, acc) ==
    IF i > Len(potentialMatches) THEN acc
    ELSE LET potentialMatch == potentialMatches[i]
             result == calculateMatchScore(newTrip, candidateInput(potentialMatch))
             MATCHING_CONFIG == getMatchingConfig(
                 Min(newTrip.matchRadius, radiusOrDefault(potentialMatch.matchRadius)))
             scored == Append(acc.scored,
                 [id |-> potentialMatch.id, score |-> result.score, reasons |-> result.reasons])
         IN matchLoop(potentialMatches, i + 1, newTrip, createdTripId, matchTimestamp,
                IF meetsThreshold(result.score, MATCHING_CONFIG)
                THEN [ scored |-> scored,
                       matchInserts |-> acc.matchInserts
                            \o matchPair(createdTripId, potentialMatch.id, result.score, matchTimestamp) ]
                ELSE [acc EXCEPT !.scored = scored])

\* pass.outcome: "none" before any pass, "ok" when the pass ran through, else the
\* call that threw
NoPass == [trip |-> 0, scored |-> <<>>, matchInserts |-> <<>>, outcome |-> "none"]

InitDb ==
    /\ trips = <<>>
    /\ tripMatches = <<>>
    /\ now = 0
    /\ response = Response(0, "", 0)
    /\ pass = NoPass
    /\ calls = <<>>
    /\ radiusSent = null
    /\ received = null

\* What the services outside the handler may do during one request:
\*   geocoder - whether it answers for the source and for the destination
\*   router   - what the routing service does with the request
\*   insert   - the trip insert stores the row, returns no row, or throws
\*   matching - the matching pass runs through, or its select, the scoring of a
\*              candidate, or its insert throws
\* Each world below is a record of the outcomes possible in one request.
\* The geocoder and the trip insert answer; the matching pass may fail
Answering ==
    [ geocoder |-> {<<TRUE, TRUE>>},
      router   |-> {"NoRoute", "Ok"},
      insert   |-> {"ok"},
      matching |-> {"ok", "selectThrows", "scoringThrows", "insertThrows"} ]

\* A service fails before the trip is stored, or the router's request fails
Faults ==
    { [ geocoder |-> {<<FALSE, TRUE>>, <<TRUE, FALSE>>},
        router   |-> {"Ok"},
        insert   |-> {"ok"},
        matching |-> {"ok"} ],
      [ geocoder |-> {<<TRUE, TRUE>>},
        router   |-> {"Ok"},
        insert   |-> {"empty", "throws"},
        matching |-> {"ok"} ],
      [ geocoder |-> {<<TRUE, TRUE>>},
        router   |-> {"error", "OkEmpty"},
        insert   |-> {"ok"},
        matching |-> {"ok"} ] }

\* The geocoder and the database answer; the router finds a route or none
ServicesUp ==
    [ geocoder |-> {<<TRUE, TRUE>>},
      router   |-> {"NoRoute", "Ok"},
      insert   |-> {"ok"},
      matching |-> {"ok"} ]

\* The awaited calls of the handler, in program order
Geocodes(sourceCoords, destCoords) ==
    << <<"geocode", sourceCoords # null>>, <<"geocode", destCoords # null>> >>

UpToInsert(routeGeometry, inserted) ==
    << <<"geocode", TRUE>>, <<"geocode", TRUE>>,
       <<"route", routeGeometry # null>>, <<"insertTrip", inserted>> >>

\* return NextResponse.json({ error, code }, { status }) before anything is stored
reject(status, code, called) ==
    /\ response' = Response(status, code, 0)
    /\ calls' = called
    /\ UNCHANGED <<trips, tripMatches, now, pass>>

\* What the matching pass can meet: the scoring is reached with a candidate to
\* score, the batch insert with a record to insert
reachedOutcomes(outcomes, looped) ==
    { matching \in outcomes :
        /\ matching = "scoringThrows" => Len(looped.scored) > 0
        /\ matching = "insertThrows" => Len(looped.matchInserts) > 0 }

\* Variant: a failing matching pass fails the request
POSTStoredFailing(createdTrip, stored, looped, world) ==
    /\ trips' = stored
    /\ now' = now + 2
    /\ \E matching \in reachedOutcomes(world.matching, looped) :
           IF \/ matching = "selectThrows"
              \/ matching = "scoringThrows" /\ Len(looped.scored) > 0
           THEN /\ pass' = [NoPass EXCEPT !.trip = createdTrip.id,
                                          !.outcome = matching]
                /\ calls' = UpToInsert(createdTrip.routeGeometry, TRUE)
                              \o << <<"select", matching # "selectThrows">> >>
                /\ response' = Response(500, "", 0)
                /\ UNCHANGED tripMatches
           ELSE /\ pass' = [ trip |-> createdTrip.id,
                             scored |-> looped.scored,
                             matchInserts |-> looped.matchInserts,
                             outcome |-> IF Len(looped.matchInserts) > 0
                                         THEN matching ELSE "ok" ]
                /\ response' = IF matching = "ok" \/ Len(looped.matchInserts) = 0
                               THEN Response(201, "", createdTrip.id)
                               ELSE Response(500, "", 0)
                /\ calls' = UpToInsert(createdTrip.routeGeometry, TRUE)
                              \o << <<"select", TRUE>> >>
                              \o (IF Len(looped.matchInserts) > 0
                                  THEN << <<"insertMatches", matching = "ok">> >> ELSE <<>>)
                /\ tripMatches' =
                       IF matching = "ok"
                       THEN tripMatches \o looped.matchInserts
                       ELSE tripMatches

\* The handler from the stored trip on: the try block of the matching pass,
\* whose failure is logged and swallowed, and the 201 response.  looped is what
\* the loop over the candidates computes when the select answers.
POSTStored(createdTrip, stored, looped, world) ==
    /\ trips' = stored
    /\ response' = Response(201, "", createdTrip.id)
    /\ now' = now + 2
    /\ \E matching \in reachedOutcomes(world.matching, looped) :
           IF \/ matching = "selectThrows"
              \/ matching = "scoringThrows" /\ Len(looped.scored) > 0
           THEN /\ pass' = [NoPass EXCEPT !.trip = createdTrip.id,
                                          !.outcome = matching]
                /\ calls' = UpToInsert(createdTrip.routeGeometry, TRUE)
                              \o << <<"select", matching # "selectThrows">> >>
                /\ UNCHANGED tripMatches
           ELSE /\ pass' = [ trip |-> createdTrip.id,
                             scored |-> looped.scored,
                             matchInserts |-> looped.matchInserts,
                             outcome |-> IF Len(looped.matchInserts) > 0
                                         THEN matching ELSE "ok" ]
                /\ calls' = UpToInsert(createdTrip.routeGeometry, TRUE)
                              \o << <<"select", TRUE>> >>
                              \o (IF Len(looped.matchInserts) > 0
                                  THEN << <<"insertMatches", matching = "ok">> >> ELSE <<>>)
                /\ tripMatches' =
                       IF matching = "ok"
                       THEN tripMatches \o looped.matchInserts
                       ELSE tripMatches

\* db.insert(trips).values({...}).returning(): the row, under the next id
insertedTrip(id, session, sanitizedData, sourceCoords, destCoords, routeGeometry, timestamp) ==
    [ id                     |-> id,
      userId                 |-> session[1],
      source                 |-> sanitizedData.source,
      destination            |-> sanitizedData.destination,
      sourceCoordinates      |-> formatCoordinates(sourceCoords),
      destinationCoordinates |-> formatCoordinates(destCoords),
      travelDate             |-> sanitizedData.travelDate,
      travelTime             |-> sanitizedData.travelTime,
      transportMode          |-> sanitizedData.transportMode,
      optimizationMode       |-> sanitizedData.optimizationMode,
      status                 |-> "active",
      routeGeometry          |-> routeGeometry,
      matchRadius            |-> sanitizedData.matchRadius,
      createdAt              |-> timestamp ]

\* The first argument of calculateMatchScore built from the request
newTripInput(sanitizedData, sourceCoords, destCoords, routeGeometry) ==
    [ sourceCoords  |-> sourceCoords,
      destCoords    |-> destCoords,
      routeGeometry |-> routeGeometry,
      destination   |-> sanitizedData.destination,
      travelDate    |-> sanitizedData.travelDate,
      transportMode |-> sanitizedData.transportMode,
      matchRadius   |-> sanitizedData.matchRadius ]

\* Variant: a request without a route is turned down
POSTRoutedRequiringRoute(session, sanitizedData, sourceCoords, destCoords, routeGeometry, world) ==
    LET timestamp == now
        createdTrip == insertedTrip(Len(trips) + 1, session, sanitizedData,
                                    sourceCoords, destCoords, routeGeometry, timestamp)
        matchTimestamp == now + 1
        newTrip == newTripInput(sanitizedData, sourceCoords, destCoords, routeGeometry)
    IN \E insert \in world.insert :
        IF routeGeometry = null
        THEN reject(500, "ROUTING_FAILED",
                    Geocodes(sourceCoords, destCoords) \o << <<"route", FALSE>> >>)
        ELSE IF insert = "throws" THEN reject(500, "", UpToInsert(routeGeometry, FALSE))
        ELSE IF insert = "empty"
             THEN reject(500, "CREATION_FAILED", UpToInsert(routeGeometry, FALSE))
        ELSE POSTStored(createdTrip, Append(trips, createdTrip),
                        matchLoop(potentialMatchesOf(Append(trips, createdTrip), session[1]),
                                  1, newTrip, Len(trips) + 1, matchTimestamp,
                                  [scored |-> <<>>, matchInserts |-> <<>>]),
                        world)

\* The handler from the trip insert on
POSTRouted(session, sanitizedData, sourceCoords, destCoords, routeGeometry, world) ==
    LET timestamp == now
        createdTrip == insertedTrip(Len(trips) + 1, session, sanitizedData,
                                    sourceCoords, destCoords, routeGeometry, timestamp)
        matchTimestamp == now + 1
        newTrip == newTripInput(sanitizedData, sourceCoords, destCoords, routeGeometry)
    IN \E insert \in world.insert :
        IF insert = "throws" THEN reject(500, "", UpToInsert(routeGeometry, FALSE))
        ELSE IF insert = "empty"
             THEN reject(500, "CREATION_FAILED", UpToInsert(routeGeometry, FALSE))
        ELSE POSTStored(createdTrip, Append(trips, createdTrip),
                        matchLoop(potentialMatchesOf(Append(trips, createdTrip), session[1]),
                                  1, newTrip, Len(trips) + 1, matchTimestamp,
                                  [scored |-> <<>>, matchInserts |-> <<>>]),
                        world)

\* Variant: the route is requested before the coordinates are checked
POSTGeocodedRoutesFirst(session, sanitizedData, sourceCoords, destCoords, world) ==
    IF sourceCoords = null \/ destCoords = null
    THEN reject(400, "GEOCODING_FAILED",
                Geocodes(sourceCoords, destCoords) \o << <<"route", FALSE>> >>)
    ELSE \E outcome \in world.router :
        POSTRouted(session, sanitizedData, sourceCoords, destCoords,
                   calculateRouteGeometry(sourceCoords, destCoords, outcome), world)

\* The handler from the geocoding check on
POSTGeocoded(session, sanitizedData, sourceCoords, destCoords, world) ==
    IF sourceCoords = null \/ destCoords = null THEN reject(400, "GEOCODING_FAILED", Geocodes(sourceCoords, destCoords))
    ELSE \E outcome \in world.router :
        POSTRouted(session, sanitizedData, sourceCoords, destCoords,
                   calculateRouteGeometry(sourceCoords, destCoords, outcome), world)

\* The handler from the match-radius check on
POSTSanitized(session, sanitizedData, world) ==
    IF \/ isNaN(sanitizedData.matchRadius)
       \/ sanitizedData.matchRadius < 1
       \/ sanitizedData.matchRadius > 100
    THEN reject(400, "INVALID_MATCH_RADIUS", <<>>)
    ELSE \E up \in world.geocoder :
        POSTGeocoded(session, sanitizedData,
                     geocode(sanitizedData.source, up[1]),
                     geocode(sanitizedData.destination, up[2]), world)

\* One trip-creation request, from authentication to the response.  What the
\* outside does is chosen, within world, where the handler reaches it.
POST(session, body, world) ==
    /\ radiusSent' = body.matchRadius
    /\ received' = <<session, body>>
    /\ IF session = null THEN reject(401, "AUTHENTICATION_REQUIRED", <<>>)
       ELSE IF body.hasUserId THEN reject(400, "USER_ID_NOT_ALLOWED", <<>>)
       ELSE IF \/ body.source = <<>> \/ body.destination = <<>> \/ body.travelDate = <<>>
               \/ body.travelTime = <<>> \/ body.transportMode = <<>>
               \/ body.optimizationMode = <<>>
            THEN reject(400, "MISSING_REQUIRED_FIELDS", <<>>)
       ELSE POSTSanitized(session, sanitize(body), world)

\* A trip leaves the status 'active' (done by the trip-update endpoint)
DeactivateTrip(id) ==
    /\ trips[id].status = "active"
    /\ trips' = [trips EXCEPT ![id].status = "inactive"]
    /\ UNCHANGED <<tripMatches, now, response, pass, calls, radiusSent, received>>

(***************************************************************************)
(* The requests drawn.                                                     *)
(***************************************************************************)
Journeys == {<<Goa, Pune>>, <<Ponda, Vasco>>, <<Pune, Goa>>}

Bodies ==
    { [ hasUserId        |-> FALSE,
        source           |-> j[1],
        destination      |-> j[2],
        travelDate       |-> d,
        travelTime       |-> <<"9", "h">>,
        transportMode    |-> car,
        optimizationMode |-> <<"f", "a", "s", "t", "e", "s", "t">>,
        matchRadius      |-> <<"number", 4>> ] :
      j \in Journeys, d \in {day1, day2} }

GoodBody == CHOOSE b \in Bodies : b.source = Goa /\ b.travelDate = day1

\* Requests the validation has to turn down, and some it has to parse
EdgeBodies ==
    { [GoodBody EXCEPT !.hasUserId = TRUE],
      [GoodBody EXCEPT !.source = <<>>],
      [GoodBody EXCEPT !.source = <<" ", "G", "o", "a", " ">>],
      [GoodBody EXCEPT !.destination = <<"X">>],
      [GoodBody EXCEPT !.matchRadius = null],
      [GoodBody EXCEPT !.matchRadius = <<"number", 0>>],
      [GoodBody EXCEPT !.matchRadius = <<"number", 101>>],
      [GoodBody EXCEPT !.matchRadius = <<"fraction", 201, 2>>],
      [GoodBody EXCEPT !.matchRadius = <<"string", <<"a", "b", "c">>>>],
      [GoodBody EXCEPT !.matchRadius = <<"string", <<"4">>>>] }

\* <<session, body, world>>: every user with every body, the matching pass
\* failing or not; one body with each fault before the insert; the edge bodies
\* and the request without a session, the services answering
Requests ==
    (({<<u>> : u \in Users} \X Bodies) \X {Answering})
    \cup (({<<"u1">>} \X {GoodBody}) \X Faults)
    \cup (({<<"u1">>} \X EdgeBodies) \X {ServicesUp})
    \cup {<<<<null, GoodBody>>, ServicesUp>>}

\* The parts of the state a specification does not exercise stay as they start
NoScore == tripA = null /\ tripB = null /\ matchResult = null
NoRequests == requests = <<>>
NoAnalysis ==
    /\ osrmRoutes = <<>> /\ alternativeRoutes = <<>>
    /\ routeRequest = null /\ routeResponse = null

NoCombined == memberTrips = <<>> /\ osrmExchange = null /\ combinedResponse = null
NoNotify ==
    /\ recipients = null /\ twilio = null
    /\ deliveries = <<>> /\ bulkResult = null
NoAlert ==
    /\ emergencyAlerts = <<>> /\ alertRequest = null
    /\ alertCalls = <<>> /\ alertResponse = null

Init ==
    /\ InitDb
    /\ NoScore
    /\ NoRequests
    /\ NoAnalysis
    /\ NoCombined
    /\ NoNotify
    /\ NoAlert

\* Requests arrive while the trips table has room for one more row
CreateTrip ==
    /\ Len(trips) < MaxTrips
    /\ \E request \in Requests :
        /\ POST(request[1][1], request[1][2], request[2])
        /\ UNCHANGED <<scoreVars, concVars, routeVars, combinedVars, notifyVars, alertVars>>

Deactivate ==
    \E id \in 1..Len(trips) :
        /\ DeactivateTrip(id)
        /\ UNCHANGED <<scoreVars, concVars, routeVars, combinedVars, notifyVars, alertVars>>

Next == CreateTrip \/ Deactivate

Spec == Init /\ [][Next]_vars

(***************************************************************************)
(* The matching pass over several candidates: requests that the services   *)
(* answer, from two users, on few journeys, into a table of MaxScanned + 1 *)
(* rows.                                                                   *)
(***************************************************************************)
ScanBodies ==
    { b \in Bodies : \/ b.source = Goa /\ b.travelDate = day1
                     \/ b.source = Pune /\ b.travelDate = day1
                     \/ b.source = Ponda /\ b.travelDate = day2 }

CreateTripServicesUp ==
    /\ Len(trips) < MaxScanned + 1
    /\ \E session \in {<<u>> : u \in Users}, body \in ScanBodies :
        /\ POST(session, body, ServicesUp)
        /\ UNCHANGED <<scoreVars, concVars, routeVars, combinedVars, notifyVars, alertVars>>

NextScan == CreateTripServicesUp \/ Deactivate

SpecScan == Init /\ [][NextScan]_vars

(***************************************************************************)
(* A longer sequence of trip creations, each with any of the failures, by  *)
(* users on the same journey or on another one.                            *)
(***************************************************************************)
MaxCreated == 3   \* rows of the trips table, a few journeys and failures of any kind

SequenceBodies ==
    { b \in Bodies : \/ b.source = Goa /\ b.travelDate = day1
                     \/ b.source = Ponda /\ b.travelDate = day2 }

CreateTripInSequence ==
    /\ Len(trips) < MaxCreated
    /\ \E session \in {<<u>> : u \in Users}, body \in SequenceBodies,
          world \in {Answering} \cup Faults :
        /\ POST(session, body, world)
        /\ UNCHANGED <<scoreVars, concVars, routeVars, combinedVars, notifyVars, alertVars>>

NextSequence == CreateTripInSequence \/ Deactivate

SpecSequence == Init /\ [][NextSequence]_vars

(***************************************************************************)
(* Requests in flight together.  The runtime runs one handler at a time    *)
(* and switches between handlers at an await only, so a request takes one  *)
(* step per awaited database call: the trip insert, the candidate query    *)
(* with the loop that follows it, and the batch insert.  Validation,       *)
(* geocoding and routing touch no table and are one step, Receive.         *)
(***************************************************************************)
MaxRequests == 2   \* trip-creation requests in flight together

\* The requests that have not responded yet
InFlight == {p \in 1..Len(requests) : requests[p].pc # "done"}

\* What the batch insert may do
BatchOutcomes == {"ok", "insertThrows"}

\* The request has passed validation, geocoding and routing
Receive ==
    /\ Cardinality(InFlight) < MaxRequests
    /\ Len(requests) < MaxScanned + 1
    /\ \E session \in {<<u>> : u \in Users}, body \in ScanBodies,
          outcome \in ServicesUp.router :
        LET sanitizedData == sanitize(body)
            sourceCoords == geocode(sanitizedData.source, TRUE)
            destCoords == geocode(sanitizedData.destination, TRUE)
        IN /\ ~body.hasUserId
           /\ ~isNaN(sanitizedData.matchRadius)
           /\ sanitizedData.matchRadius >= 1 /\ sanitizedData.matchRadius <= 100
           /\ sourceCoords # null /\ destCoords # null
           /\ requests' = Append(requests,
                  [ pc            |-> "routed",
                    session       |-> session,
                    sanitizedData |-> sanitizedData,
                    sourceCoords  |-> sourceCoords,
                    destCoords    |-> destCoords,
                    routeGeometry |-> calculateRouteGeometry(sourceCoords, destCoords, outcome),
                    createdTrip   |-> 0,
                    scored        |-> <<>>,
                    matchInserts  |-> <<>>,
                    inserts       |-> 0,
                    outcome       |-> "none",
                    status        |-> 0 ])
    /\ UNCHANGED <<dbVars, scoreVars, routeVars, combinedVars, notifyVars, alertVars>>

\* await db.insert(trips).values({...}).returning()
InsertTrip(p) ==
    LET request == requests[p]
        createdTrip == insertedTrip(Len(trips) + 1, request.session, request.sanitizedData,
                                    request.sourceCoords, request.destCoords,
                                    request.routeGeometry, now)
    IN /\ request.pc = "routed"
       /\ trips' = Append(trips, createdTrip)
       /\ now' = now + 1
       /\ requests' = [requests EXCEPT ![p].pc = "stored", ![p].createdTrip = createdTrip.id]
       /\ UNCHANGED <<tripMatches, response, pass, calls, radiusSent, received, scoreVars, routeVars, combinedVars, notifyVars, alertVars>>

\* The request after the loop over potentialMatches: with nothing to insert it
\* responds, else it awaits the batch insert
afterLoop(request, looped) ==
    [request EXCEPT !.scored = looped.scored,
                    !.matchInserts = looped.matchInserts,
                    !.pc = IF Len(looped.matchInserts) > 0 THEN "matching" ELSE "done",
                    !.outcome = IF Len(looped.matchInserts) > 0 THEN "none" ELSE "ok",
                    !.status = IF Len(looped.matchInserts) > 0 THEN 0 ELSE 201]

\* Variant: the handler runs in a transaction, so the query sees the rows of
\* finished requests only
SelectCandidatesCommittedOnly(p) ==
    LET request == requests[p]
        finished == {requests[q].createdTrip : q \in {q \in 1..Len(requests) : requests[q].pc = "done"}}
        potentialMatches == SelectSeq(potentialMatchesOf(trips, request.session[1]),
                                      LAMBDA t : t.id \in finished)
    IN /\ request.pc = "stored"
       /\ requests' = [requests EXCEPT ![p] = afterLoop(request,
              matchLoop(potentialMatches, 1,
                        newTripInput(request.sanitizedData, request.sourceCoords,
                                     request.destCoords, request.routeGeometry),
                        request.createdTrip, now,
                        [scored |-> <<>>, matchInserts |-> <<>>]))]
       /\ now' = now + 1
       /\ UNCHANGED <<trips, tripMatches, response, pass, calls, radiusSent, received, scoreVars, routeVars, combinedVars, notifyVars, alertVars>>

\* await db.select().from(trips).where(...), then the loop, which does not await
SelectCandidates(p) ==
    LET request == requests[p]
        potentialMatches == potentialMatchesOf(trips, request.session[1])
    IN /\ request.pc = "stored"
       /\ requests' = [requests EXCEPT ![p] = afterLoop(request,
              matchLoop(potentialMatches, 1,
                        newTripInput(request.sanitizedData, request.sourceCoords,
                                     request.destCoords, request.routeGeometry),
                        request.createdTrip, now,
                        [scored |-> <<>>, matchInserts |-> <<>>]))]
       /\ now' = now + 1
       /\ UNCHANGED <<trips, tripMatches, response, pass, calls, radiusSent, received, scoreVars, routeVars, combinedVars, notifyVars, alertVars>>

\* Variant: one insert per qualifying candidate
InsertMatchesPairwise(p) ==
    LET request == requests[p]
        rest == SubSeq(request.matchInserts, 3, Len(request.matchInserts))
    IN /\ request.pc = "matching"
       /\ \E outcome \in BatchOutcomes :
           /\ tripMatches' = IF outcome = "ok"
                              THEN tripMatches \o SubSeq(request.matchInserts, 1, 2)
                              ELSE tripMatches
           /\ requests' = [requests EXCEPT
                  ![p].inserts = request.inserts + 1,
                  ![p].matchInserts = IF outcome = "ok" /\ Len(rest) > 0
                                      THEN rest ELSE request.matchInserts,
                  ![p].outcome = IF outcome = "ok" /\ Len(rest) > 0 THEN "none" ELSE outcome,
                  ![p].pc = IF outcome = "ok" /\ Len(rest) > 0 THEN "matching" ELSE "done",
                  ![p].status = IF outcome = "ok" /\ Len(rest) > 0 THEN 0 ELSE 201]
       /\ UNCHANGED <<trips, now, response, pass, calls, radiusSent, received, scoreVars, routeVars, combinedVars, notifyVars, alertVars>>

\* await db.insert(tripMatches).values(matchInserts): one statement, stored whole
\* or not at all; a throw is caught and logged; then the 201 response
InsertMatches(p) ==
    LET request == requests[p]
    IN /\ request.pc = "matching"
       /\ \E outcome \in BatchOutcomes :
           /\ tripMatches' = IF outcome = "ok"
                              THEN tripMatches \o request.matchInserts
                              ELSE tripMatches
           /\ requests' = [requests EXCEPT ![p].inserts = request.inserts + 1,
                                           ![p].outcome = outcome,
                                           ![p].pc = "done",
                                           ![p].status = 201]
       /\ UNCHANGED <<trips, now, response, pass, calls, radiusSent, received, scoreVars, routeVars, combinedVars, notifyVars, alertVars>>

InsertTrips == \E p \in 1..Len(requests) : InsertTrip(p)

SelectsCandidates == \E p \in 1..Len(requests) : SelectCandidates(p)

InsertsMatches == \E p \in 1..Len(requests) : InsertMatches(p)

NextConc == Receive \/ InsertTrips \/ SelectsCandidates \/ InsertsMatches

SpecConc == Init /\ [][NextConc]_vars

(***************************************************************************)
(* The scorer on its own: every pair of trips of a bounded set.            *)
(***************************************************************************)
Positions == {Coord(p) : p \in 0..MaxPos}
Radii == 1..MaxRadius

\* route geometries: none (null), an empty array, and one with two vertices
noRoute == null
emptyRoute == <<<<>>>>
twoVertexRoute == <<<<Coord(MaxPos), Coord(0)>>>>

goaPadded == <<" ", "g", "o", "a", " ">>

ScoredTrips(routes, destinations, dates, modes) ==
    [ sourceCoords  : Positions \cup {null},
      destCoords    : Positions \cup {null},
      routeGeometry : routes,
      destination   : destinations,
      travelDate    : dates,
      transportMode : modes,
      matchRadius   : Radii ]

InitScore ==
    /\ InitDb
    /\ tripA \in ScoredTrips({noRoute, twoVertexRoute}, {Goa}, {day1}, {car})
    /\ tripB \in ScoredTrips({emptyRoute, twoVertexRoute},
                            {Goa, goaPadded, Pune}, {day1, day2}, {car, bus})
    /\ matchResult = null
    /\ NoRequests
    /\ NoAnalysis
    /\ NoCombined
    /\ NoNotify
    /\ NoAlert

Score ==
    /\ matchResult = null
    /\ matchResult' = <<calculateMatchScore(tripA, tripB)>>
    /\ UNCHANGED <<tripA, tripB>>
    /\ UNCHANGED <<dbVars, concVars, routeVars, combinedVars, notifyVars, alertVars>>

NextScore == Score

SpecScore == InitScore /\ [][NextScore]_vars

(***************************************************************************)
(* Properties of the matching pass (specifications Spec and SpecScan).      *)
(***************************************************************************)
\* The records of the latest batch that name candidate id
RecordsFor(id) ==
    { i \in 1..Len(pass.matchInserts) :
        pass.matchInserts[i].tripId = id \/ pass.matchInserts[i].matchedTripId = id }

\* C1: in the matching pass, a candidate whose score is at least 50 gets exactly
\* two records, (new trip -> candidate) and (candidate -> new trip), with that
\* score, status 'pending' and one common createdAt; a candidate whose score is
\* at most 49 gets none.  The bar is 50 whatever the two match radii are.
C1_ThresholdPair ==
    /\ \A r \in 1..100 : getMatchingConfig(r).MIN_MATCH_SCORE = 50
    /\ \A k \in 1..Len(pass.scored) :
        LET c == pass.scored[k]
            recs == RecordsFor(c.id)
        IN /\ c.score >= 50 =>
                /\ Cardinality(recs) = 2
                /\ \E i, j \in recs, t \in 0..now :
                    /\ i # j
                    /\ pass.matchInserts[i] =
                         [ tripId |-> pass.trip, matchedTripId |-> c.id, matchScore |-> c.score,
                           status |-> "pending", createdAt |-> t ]
                    /\ pass.matchInserts[j] =
                         [ tripId |-> c.id, matchedTripId |-> pass.trip, matchScore |-> c.score,
                           status |-> "pending", createdAt |-> t ]
           /\ c.score <= 49 => recs = {}

\* A pass over two candidates, one scoring exactly 50 with its two records
\* stored, the other scoring exactly 49 with none
C1_Witness ==
    /\ pass.outcome = "ok"
    /\ Len(pass.scored) = 2
    /\ \E k \in 1..2 : pass.scored[k].score = 50
    /\ \E k \in 1..2 : pass.scored[k].score = 49
    /\ Len(pass.matchInserts) = 2
    /\ SubSeq(tripMatches, Len(tripMatches) - 1, Len(tripMatches)) = pass.matchInserts

ProximityTags ==
    { "starting_points_nearby", "destinations_nearby", "can_pickup_along_route",
      "can_dropoff_along_route", "they_can_pickup", "they_can_dropoff" }

\* C9: a match record between the new trip and a candidate is created only if
\* at least one proximity rule fired for the pair.
C9_ProximityRequired ==
    \A k \in 1..Len(pass.scored) :
        RecordsFor(pass.scored[k].id) # {} =>
            \E r \in 1..Len(pass.scored[k].reasons) :
                pass.scored[k].reasons[r][1] \in ProximityTags

\* No record links a trip to itself or two trips of one user
NoSelfOrSameUserRecord ==
    \A i \in 1..Len(tripMatches) :
        /\ tripMatches[i].tripId # tripMatches[i].matchedTripId
        /\ trips[tripMatches[i].tripId].userId # trips[tripMatches[i].matchedTripId].userId

\* In a step that stores a trip: every candidate scored, and the candidate of
\* every record stored, was an active trip of another user before the step
ScansActiveOthers ==
    Len(trips') > Len(trips) =>
        LET T == Len(trips')
            wasActiveOther(id) ==
                /\ id \in 1..Len(trips)
                /\ trips[id].status = "active"
                /\ trips[id].userId # trips'[T].userId
        IN /\ pass'.trip = T
           /\ \A k \in 1..Len(pass'.scored) : wasActiveOther(pass'.scored[k].id)
           /\ \A i \in (Len(tripMatches) + 1)..Len(tripMatches') :
                \/ tripMatches'[i].tripId = T /\ wasActiveOther(tripMatches'[i].matchedTripId)
                \/ tripMatches'[i].matchedTripId = T /\ wasActiveOther(tripMatches'[i].tripId)

\* C10: the matching pass for a new trip scans only active trips of other
\* users; so no record links two trips of one user or a trip to itself, and no
\* record is stored against a candidate that was not active when scanned.
C10_OnlyActiveOthers == []NoSelfOrSameUserRecord /\ [][ScansActiveOthers]_vars

\* What the scorer gives for the stored trips new and candidate
StoredScore(new, candidate) ==
    calculateMatchScore(candidateInput(trips[new]), candidateInput(trips[candidate])).score

\* The pass for a third trip found no candidate: of the two trips stored
\* before, both of which would score at least 50, one is an active trip of the
\* same user and the other an inactive trip of another user; no record names
\* the third trip
C10_Witness ==
    /\ Len(trips) = 3
    /\ pass.trip = 3 /\ pass.outcome = "ok"
    /\ \E a, b \in 1..2 :
        /\ trips[a].userId = trips[3].userId /\ trips[a].status = "active"
        /\ trips[b].userId # trips[3].userId /\ trips[b].status = "inactive"
        /\ StoredScore(3, a) >= 50 /\ StoredScore(3, b) >= 50
    /\ pass.scored = <<>>
    /\ \A i \in 1..Len(tripMatches) :
          tripMatches[i].tripId # 3 /\ tripMatches[i].matchedTripId # 3

(***************************************************************************)
(* Properties of calculateMatchScore (specification SpecScore).            *)
(* The expected values below are written from the scoring table, not from  *)
(* the operators above.                                                    *)
(***************************************************************************)
Scored == matchResult # null

\* The lesser of the two match radii
LesserRadius == IF tripA.matchRadius <= tripB.matchRadius THEN tripA.matchRadius
                ELSE tripB.matchRadius

\* The integer nearest to weight * num / den, a tie going up
Nearest(weight, num, den) == (2 * weight * num + den) \div (2 * den)

\* The least distance between a point and a vertex of a non-empty route
LeastVertexDistance(point, route) ==
    CHOOSE d \in 0..(2 * (MaxPos + 1)) :
        /\ \E i \in 1..Len(route) : Abs(point[1] - route[i][1]) = d
        /\ \A i \in 1..Len(route) : Abs(point[1] - route[i][1]) >= d

HasRoute(trip) == trip.routeGeometry # null /\ trip.routeGeometry[1] # <<>>

RuleTag ==
    << "starting_points_nearby", "destinations_nearby", "same_destination_name",
       "can_pickup_along_route", "can_dropoff_along_route", "they_can_pickup",
       "they_can_dropoff", "same_travel_date", "same_transport_mode" >>

RuleWeight == <<45, 45, 10, 40, 40, 35, 35, 30, 20>>

EndpointRules == {1, 2}
RouteRules == {4, 5, 6, 7}

\* Whether the inputs rule k needs are there
InputsPresent(k, A, B) ==
    CASE k = 1 -> A.sourceCoords # null /\ B.sourceCoords # null
      [] k = 2 -> A.destCoords # null /\ B.destCoords # null
      [] k = 4 -> B.sourceCoords # null /\ HasRoute(A)
      [] k = 5 -> B.destCoords # null /\ HasRoute(A)
      [] k = 6 -> A.sourceCoords # null /\ HasRoute(B)
      [] k = 7 -> A.destCoords # null /\ HasRoute(B)
      [] OTHER -> TRUE

\* The distance rule k measures, when its inputs are there
RuleDistance(k, A, B) ==
    CASE k = 1 -> Abs(A.sourceCoords[1] - B.sourceCoords[1])
      [] k = 2 -> Abs(A.destCoords[1] - B.destCoords[1])
      [] k = 4 -> LeastVertexDistance(B.sourceCoords, A.routeGeometry[1])
      [] k = 5 -> LeastVertexDistance(B.destCoords, A.routeGeometry[1])
      [] k = 6 -> LeastVertexDistance(A.sourceCoords, B.routeGeometry[1])
      [] k = 7 -> LeastVertexDistance(A.destCoords, B.routeGeometry[1])

\* Whether rule k fires for (A, B) under radius R, by the scoring table
Fires(k, A, B, R) ==
    CASE k \in EndpointRules -> InputsPresent(k, A, B) /\ RuleDistance(k, A, B) <= R
      [] k \in RouteRules    -> InputsPresent(k, A, B) /\ 2 * RuleDistance(k, A, B) <= R
      [] k = 3 -> trim(toLowerCase(A.destination)) = trim(toLowerCase(B.destination))
      [] k = 8 -> A.travelDate = B.travelDate
      [] k = 9 -> toLowerCase(A.transportMode) = toLowerCase(B.transportMode)

\* What rule k adds when it fires, by the scoring table
Contribution(k, A, B, R) ==
    CASE k \in EndpointRules -> Nearest(RuleWeight[k], R - RuleDistance(k, A, B), R)
      [] k \in RouteRules    -> Nearest(RuleWeight[k], R - 2 * RuleDistance(k, A, B), R)
      [] OTHER -> RuleWeight[k]

RECURSIVE ExpectedScore(_, _, _, _)
ExpectedScore(k, A, B, R) ==
    IF k > 9 THEN 0
    ELSE (IF Fires(k, A, B, R) THEN Contribution(k, A, B, R) ELSE 0)
         + ExpectedScore(k + 1, A, B, R)

RECURSIVE ExpectedTags(_, _, _, _)
ExpectedTags(k, A, B, R) ==
    IF k > 9 THEN <<>>
    ELSE (IF Fires(k, A, B, R) THEN <<RuleTag[k]>> ELSE <<>>)
         \o ExpectedTags(k + 1, A, B, R)

TagNames(reasons) == [i \in 1..Len(reasons) |-> reasons[i][1]]

HasTag(result, tag) == \E i \in 1..Len(result.reasons) : result.reasons[i][1] = tag

\* The larger radius of the pair raised to r, the other trip as it is
RaisedPair(r) ==
    IF tripA.matchRadius >= tripB.matchRadius
    THEN <<[tripA EXCEPT !.matchRadius = r], tripB>>
    ELSE <<tripA, [tripB EXCEPT !.matchRadius = r]>>

LargerRadius == IF tripA.matchRadius >= tripB.matchRadius THEN tripA.matchRadius
                ELSE tripB.matchRadius

\* C2: every threshold comes from R = min of the two match radii (sources R,
\* destinations R, route proximity R/2), and the result depends on the radii
\* only through R: raising the larger radius changes nothing of the result.
C2_MinRadiusGoverns ==
    Scored =>
        /\ \A k \in EndpointRules \cup RouteRules :
              HasTag(matchResult[1], RuleTag[k]) <=> Fires(k, tripA, tripB, LesserRadius)
        /\ \A r \in {LargerRadius + 1, 100} :
              calculateMatchScore(RaisedPair(r)[1], RaisedPair(r)[2]) = matchResult[1]

\* The radii differ and the sources lie between them: beyond the lesser radius,
\* within the larger one, and the rule did not fire
C2_Witness ==
    /\ Scored
    /\ InputsPresent(1, tripA, tripB)
    /\ LesserRadius < RuleDistance(1, tripA, tripB)
    /\ RuleDistance(1, tripA, tripB) <= LargerRadius
    /\ ~HasTag(matchResult[1], "starting_points_nearby")

\* The step rule k makes, seen from the locals before and after it
StepAdds(k) == AfterRule(k, tripA, tripB).score - AfterRule(k - 1, tripA, tripB).score

Pushes(before, after, tag) ==
    /\ Len(after.reasons) = Len(before.reasons) + 1
    /\ SubSeq(after.reasons, 1, Len(before.reasons)) = before.reasons
    /\ after.reasons[Len(after.reasons)][1] = tag

\* The step from 'before' to 'after' is that of a proximity rule of the given
\* weight and tag whose threshold is limit = num/den and whose distance is d:
\* round(weight * (1 - d/limit)) and the tag within the limit, nothing beyond
ProximityStep(before, after, weight, tag, d, num, den) ==
    LET adds == after.score - before.score
    IN /\ d * den <= num =>
            /\ 2 * num * adds <= 2 * weight * (num - d * den) + num
            /\ 2 * weight * (num - d * den) + num < 2 * num * (adds + 1)
            /\ Pushes(before, after, tag)
            /\ HasTag(matchResult[1], tag)
       /\ d * den > num =>
            /\ adds = 0
            /\ after.reasons = before.reasons
            /\ ~HasTag(matchResult[1], tag)
       /\ d * den = num => adds = 0
       /\ d = 0 => adds = weight

\* C3: 'sources nearby' and 'destinations nearby', both coordinates present, at
\* distance d: for d <= R the rule adds round(45 * (1 - d/R)) and appends its tag,
\* for d > R it adds nothing and appends nothing; d = R adds 0 with the tag, d = 0
\* adds 45.
C3_EndpointRule ==
    Scored =>
        \A k \in EndpointRules :
            InputsPresent(k, tripA, tripB) =>
                ProximityStep(AfterRule(k - 1, tripA, tripB), AfterRule(k, tripA, tripB),
                              45, RuleTag[k], RuleDistance(k, tripA, tripB),
                              LesserRadius, 1)

\* Sources exactly R apart (tag, nothing added) and destinations at one point (45)
C3_Witness ==
    /\ Scored
    /\ InputsPresent(1, tripA, tripB) /\ InputsPresent(2, tripA, tripB)
    /\ RuleDistance(1, tripA, tripB) = LesserRadius
    /\ RuleDistance(2, tripA, tripB) = 0
    /\ HasTag(matchResult[1], "starting_points_nearby")
    /\ matchResult[1].details["sourceDistance"] = LesserRadius
    /\ StepAdds(1) = 0 /\ StepAdds(2) = 45

\* C4: the four route rules, with d the least vertex distance from the point to
\* the other trip's route: 'A can pick up B' and 'A can drop off B' add
\* round(40 * (1 - d/(R/2))), 'B can pick up A' and 'B can drop off A' add
\* round(35 * (1 - d/(R/2))), when d <= R/2; each adds nothing when d > R/2.
C4_RouteRule ==
    Scored =>
        \A k \in RouteRules :
            InputsPresent(k, tripA, tripB) =>
                ProximityStep(AfterRule(k - 1, tripA, tripB), AfterRule(k, tripA, tripB),
                              IF k \in {4, 5} THEN 40 ELSE 35, RuleTag[k],
                              RuleDistance(k, tripA, tripB), LesserRadius, 2)

\* A pickup on A's route and a pickup on B's route, each at a distance strictly
\* between 0 and R/2, adding part of 40 and part of 35
C4_Witness ==
    /\ Scored
    /\ InputsPresent(4, tripA, tripB) /\ InputsPresent(6, tripA, tripB)
    /\ RuleDistance(4, tripA, tripB) > 0 /\ RuleDistance(6, tripA, tripB) > 0
    /\ 0 < StepAdds(4) /\ StepAdds(4) < 40
    /\ 0 < StepAdds(6) /\ StepAdds(6) < 35
    /\ HasTag(matchResult[1], "can_pickup_along_route")
    /\ HasTag(matchResult[1], "they_can_pickup")

\* C5: the score is the sum of the contributions of exactly the rules that
\* fired, and reasons holds one tag per fired rule, in the order of the rules.
C5_SumAndOrder ==
    Scored =>
        /\ matchResult[1].score = ExpectedScore(1, tripA, tripB, LesserRadius)
        /\ TagNames(matchResult[1].reasons) = ExpectedTags(1, tripA, tripB, LesserRadius)

\* All nine rules fired, some with a partial contribution
C5_Witness ==
    /\ Scored
    /\ Len(matchResult[1].reasons) = 9
    /\ matchResult[1].score < 300
    /\ matchResult[1].score > 150

ProximityRules == EndpointRules \cup RouteRules

\* C6: a proximity rule whose input is missing on either side (a null
\* coordinate, a null or empty route) adds nothing and appends no reason, and
\* the other rules are evaluated as usual.
C6_MissingInputSkips ==
    LET missing == {k \in ProximityRules : ~InputsPresent(k, tripA, tripB)}
    IN (Scored /\ missing # {}) =>
        /\ \A k \in missing :
              /\ AfterRule(k, tripA, tripB) = AfterRule(k - 1, tripA, tripB)
              /\ ~HasTag(matchResult[1], RuleTag[k])
        /\ \A j \in (1..9) \ missing :
              Fires(j, tripA, tripB, LesserRadius) <=> HasTag(matchResult[1], RuleTag[j])

\* A's source is missing and B's route is an empty array, and still a later
\* proximity rule and a flat rule fired
C6_Witness ==
    /\ Scored
    /\ tripA.sourceCoords = null
    /\ tripB.routeGeometry = emptyRoute
    /\ tripA.routeGeometry = noRoute
    /\ HasTag(matchResult[1], "destinations_nearby")
    /\ HasTag(matchResult[1], "same_travel_date")
    /\ matchResult[1].score > 30

\* C7: two trips with the same source coordinates, destination coordinates,
\* destination name, travel date and transport mode score at least 150,
\* whatever their match radii and with or without route geometry.
C7_IdenticalTrips ==
    ( /\ Scored
      /\ tripA.sourceCoords # null /\ tripA.sourceCoords = tripB.sourceCoords
      /\ tripA.destCoords # null /\ tripA.destCoords = tripB.destCoords
      /\ tripA.destination = tripB.destination
      /\ tripA.travelDate = tripB.travelDate
      /\ tripA.transportMode = tripB.transportMode )
    => matchResult[1].score >= 150

\* Such a pair with different radii, distinct end points, no route: exactly 150
C7_Witness ==
    /\ Scored
    /\ tripA.sourceCoords # null /\ tripA.sourceCoords = tripB.sourceCoords
    /\ tripA.destCoords # null /\ tripA.destCoords = tripB.destCoords
    /\ tripA.sourceCoords # tripA.destCoords
    /\ tripA.destination = tripB.destination
    /\ tripA.travelDate = tripB.travelDate
    /\ tripA.transportMode = tripB.transportMode
    /\ tripA.matchRadius # tripB.matchRadius
    /\ ~HasRoute(tripA) /\ ~HasRoute(tripB)
    /\ matchResult[1].score = 150

\* What the route rules (4 to 7) add to the score of (A, B)
RoutePart(A, B) == AfterRule(7, A, B).score - AfterRule(3, A, B).score

\* C8 as stated: the score is the same in both directions.
C8_Symmetric ==
    Scored => calculateMatchScore(tripB, tripA).score = matchResult[1].score

ApartFromRoutes(forward, backward, forwardRoutes, backwardRoutes) ==
    /\ forward - forwardRoutes = backward - backwardRoutes
    /\ (forwardRoutes = 0 /\ backwardRoutes = 0) => forward = backward

\* C8 amended: the two directions agree apart from what the route rules add
\* (40 per rule on A's route, 35 per rule on B's route); they are equal when no
\* route rule adds anything in either direction.
C8_SymmetricApartFromRoutes ==
    Scored =>
        ApartFromRoutes(matchResult[1].score, calculateMatchScore(tripB, tripA).score,
                        RoutePart(tripA, tripB), RoutePart(tripB, tripA))

\* A's route passes B's source, B has no route: 40 one way, 35 the other
C8_Witness ==
    /\ Scored
    /\ HasRoute(tripA) /\ ~HasRoute(tripB)
    /\ tripA.matchRadius # tripB.matchRadius
    /\ RoutePart(tripA, tripB) = 40
    /\ RoutePart(tripB, tripA) = 35
    /\ matchResult[1].score = calculateMatchScore(tripB, tripA).score + 5

(***************************************************************************)
(* The route alternative analyzer.                                         *)
(*                                                                         *)
(* Source: src/src/app/api/emergency-contacts/route.ts                     *)
(*   estimateFuelCost, estimateTrafficFactor, calculateRouteScore and the  *)
(*   handler POST from the provider's alternatives to the response.        *)
(*                                                                         *)
(* Representation.                                                         *)
(*  - A number is the fraction <<n, d>> in lowest terms, n >= 0, d > 0;    *)
(*    <<1, 0>> is Infinity and <<0, 0>> is NaN.  The arithmetic is exact,  *)
(*    where the code rounds to doubles: two scores that differ by less     *)
(*    than a rounding error are not told apart.                            *)
(*  - An object has a field ref standing for its identity, which is what   *)
(*    === and !== compare.                                                 *)
(*  - The places lie on one meridian: a latitude is a number of           *)
(*    kilometres of arc along it, so the haversine distance of two places  *)
(*    is the difference of their latitudes.  The longitude of the          *)
(*    meridian is a number no latitude takes, which tells the two axes of  *)
(*    a pair apart.                                                        *)
(*  - The i-th alternative of the provider passes a vertex of its own, so  *)
(*    the coordinates of a route tell which alternative it was taken from. *)
(***************************************************************************)
RECURSIVE GCD(_, _)
GCD(a, b) == IF b = 0 THEN a ELSE GCD(b, a % b)

\* n / d
Frac(n, d) ==
    IF d = 0 THEN (IF n = 0 THEN <<0, 0>> ELSE <<1, 0>>)
    ELSE <<n \div GCD(n, d), d \div GCD(n, d)>>

Whole(n) == <<n, 1>>

NotANumberValue == <<0, 0>>

InfinityValue == <<1, 0>>

\* a * b
Times(a, b) == Frac(a[1] * b[1], a[2] * b[2])

\* a / b
Over(a, b) == Frac(a[1] * b[2], a[2] * b[1])

\* a + b
Plus(a, b) ==
    IF a = InfinityValue /\ b = InfinityValue THEN InfinityValue
    ELSE Frac(a[1] * b[2] + b[1] * a[2], a[2] * b[2])

\* The sign of a - b as a sort comparator reads it: NaN counts as 0
Sign(a, b) ==
    IF a = NotANumberValue \/ b = NotANumberValue THEN 0
    ELSE IF a = InfinityValue /\ b = InfinityValue THEN 0
    ELSE IF a[1] * b[2] < b[1] * a[2] THEN -1
    ELSE IF a[1] * b[2] > b[1] * a[2] THEN 1
    ELSE 0

\* a > b and a < b, false when either is NaN
Greater(a, b) == a # NotANumberValue /\ b # NotANumberValue /\ a[1] * b[2] > b[1] * a[2]

Less(a, b) == Greater(b, a)

\* Math.max(a, b), Math.min(a, b)
MathMax(a, b) ==
    IF a = NotANumberValue \/ b = NotANumberValue THEN NotANumberValue
    ELSE IF Greater(b, a) THEN b ELSE a

MathMin(a, b) ==
    IF a = NotANumberValue \/ b = NotANumberValue THEN NotANumberValue
    ELSE IF Less(b, a) THEN b ELSE a

\* x || fallback, for a number x
OrElse(x, fallback) == IF x = NotANumberValue \/ x[1] = 0 THEN fallback ELSE x

\* The array with the elements f[1], ..., f[n]
RECURSIVE ArrayOf(_, _)
ArrayOf(f, n) == IF n = 0 THEN <<>> ELSE Append(ArrayOf(f, n - 1), f[n])

\* Array.prototype.sort((a, b) => key(a) - key(b)) on items with the given keys:
\* ascending, items that compare as 0 keeping their order
sortByKey(keys, items) ==
    LET before(j, i) == Sign(keys[j], keys[i]) < 0 \/ (Sign(keys[j], keys[i]) = 0 /\ j < i)
        rank(i) == Cardinality({j \in 1..Len(items) : before(j, i)}) + 1
    IN ArrayOf([k \in 1..Len(items) |-> items[CHOOSE i \in 1..Len(items) : rank(i) = k]],
               Len(items))

\* fuelEfficiencyRates[mode]?.[routeType] || 0, in litres per 100 km
efficiencyRate(mode, routeType) ==
    CASE mode = "car" /\ routeType = "highway" -> Frac(65, 10)
      [] mode = "car" /\ routeType = "mixed"   -> Whole(8)
      [] mode = "car" /\ routeType = "urban"   -> Whole(10)
      [] mode = "bus" /\ routeType = "highway" -> Whole(2)
      [] mode = "bus" /\ routeType = "mixed"   -> Frac(25, 10)
      [] mode = "bus" /\ routeType = "urban"   -> Whole(3)
      [] mode = "train" /\ routeType = "highway" -> Frac(15, 10)
      [] mode = "train" /\ routeType = "mixed"   -> Frac(18, 10)
      [] mode = "train" /\ routeType = "urban"   -> Whole(2)
      [] mode = "flight" -> Whole(15)
      [] OTHER -> Whole(0)

\* estimateFuelCost(distanceKm, mode, routeType)
estimateFuelCost(distanceKm, mode, routeType) ==
    LET fuelPricePerLiter == Frac(15, 10)
        efficiency == efficiencyRate(mode, routeType)
        fuelUsed == Over(Times(distanceKm, efficiency), Whole(100))
    IN Times(fuelUsed, fuelPricePerLiter)

\* expectedSpeeds[mode] || 60, in km/h
expectedSpeed(mode) ==
    CASE mode = "car" -> 80
      [] mode = "cycling" -> 20
      [] mode = "walking" -> 5
      [] mode = "bus" -> 60
      [] mode = "train" -> 100
      [] mode = "flight" -> 500
      [] OTHER -> 60

\* estimateTrafficFactor(distance, duration, mode), distance in metres and
\* duration in seconds
estimateTrafficFactor(distance, duration, mode) ==
    LET avgSpeed == Over(Frac(distance, 1000), Frac(duration, 3600))
        trafficFactor == MathMax(Whole(1), Over(Whole(expectedSpeed(mode)), avgSpeed))
    IN MathMin(trafficFactor, Whole(3))

\* calculateRouteScore(distance, duration, mode, optimizationType)
calculateRouteScore(distance, duration, mode, optimizationType) ==
    LET distanceKm == Frac(distance, 1000)
        durationHours == Frac(duration, 3600)
        avgSpeed == Over(distanceKm, durationHours)
        routeType == IF mode = "car" /\ Greater(avgSpeed, Whole(70)) THEN "highway"
                     ELSE IF mode = "car" /\ Less(avgSpeed, Whole(40)) THEN "urban"
                     ELSE "mixed"
        fuelCost == estimateFuelCost(distanceKm, mode, routeType)
        trafficFactor == estimateTrafficFactor(distance, duration, mode)
    IN [ cost           |-> fuelCost,
         score          |-> IF optimizationType = "cheapest" THEN fuelCost
                            ELSE Times(Whole(duration), trafficFactor),
         fuelEfficiency |-> IF Greater(fuelCost, Whole(0))
                            THEN Over(Whole(100), Over(fuelCost, distanceKm))
                            ELSE Whole(100),
         trafficFactor  |-> trafficFactor ]

\* What Nominatim knows: data[0] of its answer, the places 0, 10 and 100 km
\* up the meridian of longitude 500
Nominatim(location) ==
    CASE location = "Panaji"  -> [lat |-> 0, lon |-> 500]
      [] location = "Mapusa"  -> [lat |-> 10, lon |-> 500]
      [] location = "Belgaum" -> [lat |-> 100, lon |-> 500]
      [] OTHER -> null

\* geocode(location) of the analyzer: [parseFloat(lon), parseFloat(lat)], or null
geocodeLocation(location) ==
    LET data == Nominatim(location)
    IN IF data = null THEN null ELSE <<data.lon, data.lat>>

\* R * c * 1000 of the handler: the haversine distance in metres, reading
\* index 1 of a pair as the latitude and index 0 as the longitude.  On one
\* meridian (dLon = 0) it is the latitude difference.
straightDistance(startCoords, destCoords) ==
    LET dLat == destCoords[2] - startCoords[2]
        dLon == destCoords[1] - startCoords[1]
    IN CASE dLon = 0 -> Abs(dLat) * 1000

\* The fallback route built when the provider supplies nothing; distance and
\* duration are whole numbers for the places of the model
fallbackRoute(startCoords, destCoords) ==
    LET distance == Times(Whole(straightDistance(startCoords, destCoords)), Frac(13, 10))
        duration == Times(Over(Over(distance, Whole(1000)), Whole(60)), Whole(60))
    IN [ coordinates |-> <<startCoords, destCoords>>,
         distance    |-> distance[1],
         duration    |-> duration[1] ]

\* alternativeRoutes.map(route => ({ route, cheapestScore, ... })): element i
analyzedRoute(route, i, transportMode) ==
    LET cheapestAnalysis == calculateRouteScore(route.distance, route.duration,
                                                transportMode, "cheapest")
        fastestAnalysis == calculateRouteScore(route.distance, route.duration,
                                               transportMode, "fastest")
    IN [ ref            |-> <<"analyzedRoutes", i>>,
         route          |-> route,
         cheapestScore  |-> cheapestAnalysis.score,
         fastestScore   |-> fastestAnalysis.score,
         cost           |-> cheapestAnalysis.cost,
         fuelEfficiency |-> cheapestAnalysis.fuelEfficiency,
         trafficFactor  |-> cheapestAnalysis.trafficFactor ]

\* The RouteData pushed for an analyzed route
RouteData(analyzed, transportMode, optimizationType) ==
    [ coordinates      |-> analyzed.route.coordinates,
      distance         |-> analyzed.route.distance,
      duration         |-> analyzed.route.duration,
      cost             |-> analyzed.cost,
      mode             |-> transportMode,
      optimizationType |-> optimizationType,
      fuelEfficiency   |-> analyzed.fuelEfficiency,
      trafficFactor    |-> analyzed.trafficFactor ]

Field(items, field) == ArrayOf([i \in 1..Len(items) |-> items[i][field]], Len(items))

\* Variant: the first alternative is taken as the cheapest
sortedByCostUnsorted(analyzedRoutes) == analyzedRoutes

\* [...analyzedRoutes].sort((a, b) => a.cheapestScore - b.cheapestScore)
sortedByCost(analyzedRoutes) ==
    sortByKey(Field(analyzedRoutes, "cheapestScore"), analyzedRoutes)

\* [...analyzedRoutes].sort((a, b) => a.fastestScore - b.fastestScore)
sortedBySpeed(analyzedRoutes) ==
    sortByKey(Field(analyzedRoutes, "fastestScore"), analyzedRoutes)

\* analyzedRoutes.map(r => ({ ...r, balancedScore })).sort(...): the copies are
\* new objects
balancedRoutes(analyzedRoutes, bestCost, bestSpeed) ==
    LET copies == ArrayOf([i \in 1..Len(analyzedRoutes) |->
                     [ ref            |-> <<"balancedRoutes", i>>,
                       route          |-> analyzedRoutes[i].route,
                       cheapestScore  |-> analyzedRoutes[i].cheapestScore,
                       fastestScore   |-> analyzedRoutes[i].fastestScore,
                       cost           |-> analyzedRoutes[i].cost,
                       fuelEfficiency |-> analyzedRoutes[i].fuelEfficiency,
                       trafficFactor  |-> analyzedRoutes[i].trafficFactor,
                       balancedScore  |->
                           Plus(Over(analyzedRoutes[i].cheapestScore, bestCost.cheapestScore),
                                Over(analyzedRoutes[i].fastestScore, bestSpeed.fastestScore)) ]],
                          Len(analyzedRoutes))
    IN sortByKey(Field(copies, "balancedScore"), copies)

\* Variant: a fastest route is pushed whatever the cheapest pick
fastestPushedAlways(bestCost, bestSpeed, transportMode) ==
    <<RouteData(bestSpeed, transportMode, "fastest")>>

\* if (sortedBySpeed[0] && sortedBySpeed[0] !== sortedByCost[0]) routes.push(...)
fastestPushed(bestCost, bestSpeed, transportMode) ==
    IF bestSpeed.ref # bestCost.ref
    THEN <<RouteData(bestSpeed, transportMode, "fastest")>>
    ELSE <<>>

\* if (analyzedRoutes.length > 2) { ... if (balanced !== ... && balanced !== ...) }
balancedPushed(analyzedRoutes, bestCost, bestSpeed, balanced, transportMode) ==
    IF Len(analyzedRoutes) > 2
       /\ balanced.ref # bestCost.ref /\ balanced.ref # bestSpeed.ref
    THEN <<RouteData(balanced, transportMode, "balanced")>>
    ELSE <<>>

\* The routes pushed, in the order pushed
pushedRoutes(analyzedRoutes, bestCost, bestSpeed, transportMode) ==
    <<RouteData(bestCost, transportMode, "cheapest")>>
    \o fastestPushed(bestCost, bestSpeed, transportMode)
    \o balancedPushed(analyzedRoutes, bestCost, bestSpeed,
                      balancedRoutes(analyzedRoutes, bestCost, bestSpeed)[1], transportMode)

\* Variant: the routes are returned in the order pushed
sortedRoutesAsPushed(routes, optimizationMode) == routes

\* routes.sort(...) by the caller's preference, when it is one of the two
sortedRoutes(routes, optimizationMode) ==
    IF optimizationMode = "fastest"
    THEN sortByKey(ArrayOf([i \in 1..Len(routes) |->
                               Times(Whole(routes[i].duration),
                                     OrElse(routes[i].trafficFactor, Whole(1)))],
                           Len(routes)),
                   routes)
    ELSE IF optimizationMode = "cheapest"
    THEN sortByKey(Field(routes, "cost"), routes)
    ELSE routes

\* The handler from the analyzed routes to the response
routesOfAnalyzed(analyzedRoutes, transportMode, optimizationMode) ==
    sortedRoutes(pushedRoutes(analyzedRoutes, sortedByCost(analyzedRoutes)[1],
                              sortedBySpeed(analyzedRoutes)[1], transportMode),
                 optimizationMode)

\* The handler from the provider's answer to the response
analyzeAlternatives(alternatives, transportMode, optimizationMode) ==
    routesOfAnalyzed(ArrayOf([i \in 1..Len(alternatives) |->
                                 analyzedRoute(alternatives[i], i, transportMode)],
                             Len(alternatives)),
                     transportMode, optimizationMode)

MaxRoutes == 3   \* alternatives the routing provider supplies

\* Distance in metres and duration in seconds of the alternatives drawn: roads
\* driven at 60, 80, 50, 30 and 84 km/h
Roads == { <<60000, 3600>>, <<80000, 3600>>, <<50000, 3600>>, <<30000, 3600>>,
           <<70000, 3000>> }

RECURSIVE RoadLists(_)
RoadLists(n) ==
    IF n = 0 THEN {<<>>}
    ELSE RoadLists(n - 1)
         \cup { Append(l, r) : l \in {l \in RoadLists(n - 1) : Len(l) = n - 1}, r \in Roads }

\* route.geometry.coordinates of the i-th alternative OSRM answers with, as
\* [lon, lat] pairs: from start to end by a vertex i km off the start
osrmCoordinates(start, end, i) ==
    << start, <<start[1], start[2] + i>>, end >>

\* route.geometry.coordinates.map(coord => [coord[1], coord[0]])
toLeaflet(coordinates) ==
    ArrayOf([k \in 1..Len(coordinates) |-> <<coordinates[k][2], coordinates[k][1]>>],
            Len(coordinates))

\* calculateAlternativeRoutes: what the provider supplied, [] when it failed
providedRoutes(roads, start, end) ==
    ArrayOf([i \in 1..Len(roads) |->
                [ coordinates |-> toLeaflet(osrmCoordinates(start, end, i)),
                  distance    |-> roads[i][1],
                  duration    |-> roads[i][2] ]],
            Len(roads))

\* The route requests that pass validation and geocoding
RouteRequests ==
    [ boardingPoints   : {<<"Panaji">>, <<"Mapusa">>},
      destination      : {"Belgaum"},
      transportMode    : {"car", "cycling", "bus"},
      optimizationMode : {"fastest", "cheapest", "shortest"} ]

\* The handler keeps nothing between requests: one request is taken
AnalyzeRoutes ==
    /\ routeResponse = null
    /\ \E body \in RouteRequests, roads \in RoadLists(MaxRoutes) :
        LET startCoords == geocodeLocation(body.boardingPoints[1])
            destCoords == geocodeLocation(body.destination)
            provided == providedRoutes(roads, startCoords, destCoords)
            alternatives == IF Len(provided) = 0
                            THEN <<fallbackRoute(startCoords, destCoords)>>
                            ELSE provided
        IN /\ startCoords # null /\ destCoords # null
           /\ osrmRoutes' = provided
           /\ alternativeRoutes' = alternatives
           /\ routeRequest' = <<body>>
           /\ routeResponse' = <<analyzeAlternatives(alternatives, body.transportMode,
                                                     body.optimizationMode)>>
    /\ UNCHANGED <<dbVars, scoreVars, concVars, combinedVars, notifyVars, alertVars>>

NextRoutes == AnalyzeRoutes

SpecRoutes == Init /\ [][NextRoutes]_vars

(***************************************************************************)
(* The combined-route builder of a group.                                  *)
(*                                                                         *)
(* Source: src/src/app/api/groups/[id]/combined-route/route.ts             *)
(*   calculateCombinedRoute, mapToOSRMProfile and the handler GET.         *)
(***************************************************************************)
cycling == <<"c", "y", "c", "l", "i", "n", "g">>

\* mapToOSRMProfile(mode): modeMap[mode] || 'car'
mapToOSRMProfile(mode) ==
    CASE mode = car -> "car"
      [] mode = cycling -> "bike"
      [] mode = <<"w", "a", "l", "k", "i", "n", "g">> -> "foot"
      [] OTHER -> "car"

\* The waypoints pushed by the loop over memberTrips, from trip i on
RECURSIVE waypointsFrom(_, _)
waypointsFrom(trips_, i) ==
    IF i > Len(trips_) THEN <<>>
    ELSE LET trip == trips_[i]
             source == parseCoordinates(trip.sourceCoordinates)
             destination == parseCoordinates(trip.destinationCoordinates)
             pickup == IF trip.sourceCoordinates # null
                       THEN <<[ lat |-> source[1], lon |-> source[2], type |-> "pickup",
                                userId |-> trip.userId, location |-> trip.source ]>>
                       ELSE <<>>
             dropoff == IF trip.destinationCoordinates # null
                        THEN <<[ lat |-> destination[1], lon |-> destination[2],
                                 type |-> "dropoff", userId |-> trip.userId,
                                 location |-> trip.destination ]>>
                        ELSE <<>>
         IN pickup \o dropoff \o waypointsFrom(trips_, i + 1)

IsPickup(w) == w.type = "pickup"
IsDropoff(w) == w.type = "dropoff"

\* Variant: the waypoints are visited trip by trip
orderedWaypointsByTrip(waypoints) == waypoints

\* [...pickups, ...dropoffs]
orderedWaypoints(waypoints) ==
    SelectSeq(waypoints, IsPickup) \o SelectSeq(waypoints, IsDropoff)

\* parts.join(sep)
RECURSIVE join(_, _)
join(parts, sep) ==
    IF Len(parts) = 0 THEN <<>>
    ELSE IF Len(parts) = 1 THEN parts[1]
    ELSE parts[1] \o sep \o join(Tail(parts), sep)

\* orderedWaypoints.map(wp => `${wp.lon},${wp.lat}`).join(';')
coordinatesString(ordered) ==
    join(ArrayOf([k \in 1..Len(ordered) |-> formatCoordinates(<<ordered[k].lon, ordered[k].lat>>)],
                 Len(ordered)),
         <<";">>)

\* The routing provider reads the path of the request: lon,lat;lon,lat;...
RECURSIVE osrmWaypoints(_)
osrmWaypoints(path) ==
    IF \E k \in 1..Len(path) : path[k] = ";"
    THEN LET k == CHOOSE i \in 1..Len(path) : path[i] = ";" /\ \A j \in 1..(i - 1) : path[j] # ";"
         IN <<parseCoordinates(SubSeq(path, 1, k - 1))>>
            \o osrmWaypoints(SubSeq(path, k + 1, Len(path)))
    ELSE <<parseCoordinates(path)>>

\* Length in km of the path through the [lon, lat] points, from point i on
RECURSIVE pathLength(_, _)
pathLength(points, i) ==
    IF i >= Len(points) THEN 0
    ELSE Abs(points[i + 1][2] - points[i][2]) + pathLength(points, i + 1)

\* What the routing provider answers to the combined request: a route through
\* the waypoints in the order of the request, geometry as [lon, lat], driven
\* at 60 km/h
osrmCombinedFetch(request, outcome) ==
    CASE outcome = "error"   -> null
      [] outcome = "NoRoute" -> <<[code |-> "NoRoute", routes |-> <<>>]>>
      [] outcome = "OkEmpty" -> <<[code |-> "Ok", routes |-> <<>>]>>
      [] OTHER -> LET points == osrmWaypoints(request.coordinatesString)
                  IN <<[ code   |-> "Ok",
                         routes |-> <<[ coordinates |-> points,
                                        distance    |-> pathLength(points, 1) * 1000,
                                        duration    |-> pathLength(points, 1) * 60 ]>> ]>>

\* memberTrips[0].transportMode || 'car'
firstTransportMode(trips_) ==
    IF trips_[1].transportMode = null THEN car ELSE trips_[1].transportMode

\* The request calculateCombinedRoute sends, or null when it returns before
combinedRequest(trips_, ordered) ==
    IF \/ Len(trips_) = 0
       \/ Len(SelectSeq(ordered, IsPickup)) = 0
       \/ Len(SelectSeq(ordered, IsDropoff)) = 0
    THEN null
    ELSE <<[ profile           |-> mapToOSRMProfile(firstTransportMode(trips_)),
             coordinatesString |-> coordinatesString(ordered) ]>>

\* Variant: a failing provider is made up for by the straight path
combinedRouteEstimated(trips_, ordered, sent, outcome) ==
    IF sent = null THEN null
    ELSE LET points == osrmWaypoints(sent[1].coordinatesString)
         IN <<[ coordinates   |-> toLeaflet(points),
                distance      |-> pathLength(points, 1) * 1000,
                duration      |-> pathLength(points, 1) * 60,
                waypoints     |-> ordered,
                transportMode |-> firstTransportMode(trips_) ]>>

\* calculateCombinedRoute from the request on: the combined route, or null
combinedRoute(trips_, ordered, sent, outcome) ==
    IF sent = null THEN null
    ELSE LET answer == osrmCombinedFetch(sent[1], outcome)
         IN IF answer = null THEN null
            ELSE IF answer[1].code # "Ok" \/ Len(answer[1].routes) = 0 THEN null
            ELSE LET route == answer[1].routes[1]
                 IN <<[ coordinates   |-> toLeaflet(route.coordinates),
                        distance      |-> route.distance,
                        duration      |-> route.duration,
                        waypoints     |-> ordered,
                        transportMode |-> firstTransportMode(trips_) ]>>

\* calculateCombinedRoute(memberTrips): what it sends and what it returns
calculateCombinedRoute(trips_, outcome) ==
    LET ordered == orderedWaypoints(waypointsFrom(trips_, 1))
        sent == combinedRequest(trips_, ordered)
    IN [ sent |-> sent, route |-> combinedRoute(trips_, ordered, sent, outcome) ]

MaxMembers == 2   \* active trips of the members of a group

\* The active trips a group's members can have: u1 from Goa to Pune, u2 from
\* Vasco to Ponda, with or without stored coordinates
MemberTripRows ==
    { [ userId                 |-> u,
        source                 |-> IF u = "u1" THEN Goa ELSE Vasco,
        destination            |-> IF u = "u1" THEN Pune ELSE Ponda,
        sourceCoordinates      |-> IF s THEN formatCoordinates(
                                                 Gazetteer(IF u = "u1" THEN Goa ELSE Vasco))
                                   ELSE null,
        destinationCoordinates |-> IF d THEN formatCoordinates(
                                                 Gazetteer(IF u = "u1" THEN Pune ELSE Ponda))
                                   ELSE null,
        transportMode          |-> mode ] :
      u \in Users, s \in BOOLEAN, d \in BOOLEAN, mode \in {car, cycling, bus} }

RECURSIVE MemberTripLists(_)
MemberTripLists(n) ==
    IF n = 0 THEN {<<>>}
    ELSE MemberTripLists(n - 1)
         \cup { Append(l, r) : l \in {l \in MemberTripLists(n - 1) : Len(l) = n - 1},
                               r \in MemberTripRows }

CombinedResponse(status, code, body) == [status |-> status, code |-> code, body |-> body]

\* The requests GET receives: who asks, for which group, whether they are a
\* member of it, and whether the database answers
CombinedRequests ==
    [ session : {null, <<"u1">>}, groupIdParam : {<<"7">>, <<"x">>, <<>>},
      member : BOOLEAN, db : {"ok", "throws"} ]

\* GET /api/groups/[id]/combined-route
GET(req, trips_, outcome) ==
    IF req.session = null THEN
        /\ combinedResponse' = <<CombinedResponse(401, "AUTHENTICATION_REQUIRED", null)>>
        /\ UNCHANGED <<memberTrips, osrmExchange>>
    ELSE IF req.groupIdParam = <<>> \/ isNaN(parseInt(<<"string", req.groupIdParam>>)) THEN
        /\ combinedResponse' = <<CombinedResponse(400, "INVALID_GROUP_ID", null)>>
        /\ UNCHANGED <<memberTrips, osrmExchange>>
    ELSE IF req.db = "throws" THEN
        /\ combinedResponse' = <<CombinedResponse(500, "", null)>>
        /\ UNCHANGED <<memberTrips, osrmExchange>>
    ELSE IF ~req.member THEN
        /\ combinedResponse' = <<CombinedResponse(403, "FORBIDDEN", null)>>
        /\ UNCHANGED <<memberTrips, osrmExchange>>
    ELSE IF Len(trips_) = 0 THEN
        /\ combinedResponse' = <<CombinedResponse(404, "NO_TRIPS", null)>>
        /\ UNCHANGED <<memberTrips, osrmExchange>>
    ELSE LET combined == calculateCombinedRoute(trips_, outcome)
         IN /\ memberTrips' = trips_
            /\ osrmExchange' = IF combined.sent = null THEN null
                               ELSE <<[request |-> combined.sent[1], outcome |-> outcome]>>
            /\ combinedResponse' =
                   IF combined.route = null
                   THEN <<CombinedResponse(500, "CALCULATION_FAILED", null)>>
                   ELSE <<CombinedResponse(200, "", combined.route)>>

\* The handler keeps nothing between requests: one request is taken
GetCombinedRoute ==
    /\ combinedResponse = null
    /\ \E req \in CombinedRequests, trips_ \in MemberTripLists(MaxMembers),
          outcome \in RouterOutcomes :
        GET(req, trips_, outcome)
    /\ UNCHANGED <<dbVars, scoreVars, concVars, routeVars, notifyVars, alertVars>>

NextCombined == GetCombinedRoute

SpecCombined == Init /\ [][NextCombined]_vars

(***************************************************************************)
(* The notifier.                                                           *)
(*                                                                         *)
(* Source: src/src/lib/twilio.ts, sendWhatsApp and sendBulkWhatsApp.       *)
(* A string is a sequence of pieces: "whatsapp:" is one piece.  Each       *)
(* recipient's sendWhatsApp runs up to its await of messages.create when   *)
(* recipients.map calls it; the creates settle in any order.               *)
(***************************************************************************)
\* s.startsWith('whatsapp:')
startsWithWhatsapp(s) == s # <<>> /\ Head(s) = "whatsapp:"

\* to.startsWith('whatsapp:') ? to : `whatsapp:${to}`
formattedTo(to) == IF startsWithWhatsapp(to) THEN to ELSE <<"whatsapp:">> \o to

\* What sendWhatsApp does before its first await: the result it returns at
\* once, or the message it hands to messages.create
sendWhatsAppCalled(to, message, client, whatsAppNumber) ==
    IF client = null \/ whatsAppNumber = null
    THEN [ state |-> "resolved", twilio |-> "none", created |-> null,
           result |-> [success |-> FALSE, sid |-> null,
                       error |-> "Twilio WhatsApp not configured"] ]
    ELSE [ state |-> "create", twilio |-> "none",
           created |-> <<[body |-> message, from |-> formattedTo(whatsAppNumber),
                          to |-> formattedTo(to)]>>,
           result |-> null ]

\* What Twilio can do with a message
TwilioAnswers == {"sent", "error", "errorNoMessage"}

\* What sendWhatsApp returns once messages.create has settled
sendWhatsAppSettled(delivery, answer) ==
    [ delivery EXCEPT
        !.state = "resolved",
        !.twilio = answer,
        !.result = CASE answer = "sent" ->
                            [success |-> TRUE, sid |-> <<"SM">> \o delivery.created[1].to,
                             error |-> null]
                     [] answer = "error" ->
                            [success |-> FALSE, sid |-> null, error |-> "Twilio error"]
                     [] OTHER ->
                            [success |-> FALSE, sid |-> null,
                             error |-> "Failed to send WhatsApp message"] ]

\* results.filter(keep).length, counted from result i on
RECURSIVE countFrom(_, _, _)
countFrom(results, success, i) ==
    IF i > Len(results) THEN 0
    ELSE (IF results[i].success = success THEN 1 ELSE 0) + countFrom(results, success, i + 1)

\* { phone, ...result } of every recipient, in the order of recipients
resultsOf(list, settled) ==
    ArrayOf([i \in 1..Len(list) |->
                [ phone   |-> list[i].phone,
                  success |-> settled[i].result.success,
                  sid     |-> settled[i].result.sid,
                  error   |-> settled[i].result.error ]],
            Len(list))

\* Variant: the batch stops at the first failed send
bulkReturnFailFast(list, settled) ==
    LET sent == resultsOf(list, settled)
        stop == IF \E i \in 1..Len(sent) : ~sent[i].success
                THEN CHOOSE i \in 1..Len(sent) :
                         ~sent[i].success /\ \A j \in 1..(i - 1) : sent[j].success
                ELSE Len(sent)
    IN <<[ successful |-> countFrom(SubSeq(sent, 1, stop), TRUE, 1),
           failed     |-> countFrom(SubSeq(sent, 1, stop), FALSE, 1),
           results    |-> SubSeq(sent, 1, stop) ]>>

\* What sendBulkWhatsApp returns once every sendWhatsApp has returned
bulkReturn(list, settled) ==
    <<[ successful |-> countFrom(resultsOf(list, settled), TRUE, 1),
        failed     |-> countFrom(resultsOf(list, settled), FALSE, 1),
        results    |-> resultsOf(list, settled) ]>>

MaxRecipients == 3   \* recipients of one bulk send

Phones == { <<"+1">>, <<"+2">>, <<"whatsapp:", "+3">> }

RECURSIVE RecipientLists(_)
RecipientLists(n) ==
    IF n = 0 THEN {<<>>}
    ELSE RecipientLists(n - 1)
         \cup { Append(l, [phone |-> p, message |-> <<"SOS">>]) :
                    l \in {l \in RecipientLists(n - 1) : Len(l) = n - 1}, p \in Phones }

\* The credentials of the deployment: twilioClient and twilioWhatsAppNumber
Deployments ==
    { [client |-> <<"client">>, whatsAppNumber |-> <<"+0">>],
      [client |-> <<"client">>, whatsAppNumber |-> null],
      [client |-> null, whatsAppNumber |-> null] }

\* sendBulkWhatsApp(recipients) up to the await of Promise.all
SendBulk ==
    /\ recipients = null
    /\ \E list \in RecipientLists(MaxRecipients), deployment \in Deployments :
        /\ recipients' = <<list>>
        /\ twilio' = deployment
        /\ deliveries' = ArrayOf([i \in 1..Len(list) |->
                                     sendWhatsAppCalled(list[i].phone, list[i].message,
                                                        deployment.client,
                                                        deployment.whatsAppNumber)],
                                 Len(list))
    /\ UNCHANGED bulkResult
    /\ UNCHANGED <<dbVars, scoreVars, concVars, routeVars, combinedVars, alertVars>>

\* messages.create of recipient i settles
Settle(i) ==
    /\ deliveries[i].state = "create"
    /\ \E answer \in TwilioAnswers :
        deliveries' = [deliveries EXCEPT ![i] = sendWhatsAppSettled(deliveries[i], answer)]
    /\ UNCHANGED <<recipients, twilio, bulkResult>>
    /\ UNCHANGED <<dbVars, scoreVars, concVars, routeVars, combinedVars, alertVars>>

Settles == \E i \in 1..Len(deliveries) : Settle(i)

\* Promise.all resolves and sendBulkWhatsApp returns
ReturnBulk ==
    /\ recipients # null /\ bulkResult = null
    /\ \A i \in 1..Len(deliveries) : deliveries[i].state = "resolved"
    /\ bulkResult' = bulkReturn(recipients[1], deliveries)
    /\ UNCHANGED <<recipients, twilio, deliveries>>
    /\ UNCHANGED <<dbVars, scoreVars, concVars, routeVars, combinedVars, alertVars>>

NextNotify == SendBulk \/ Settles \/ ReturnBulk

SpecNotify == Init /\ [][NextNotify]_vars

(***************************************************************************)
(* The emergency alert.                                                    *)
(*                                                                         *)
(* Source: src/src/app/api/emergency-alerts/route.ts, the handler POST,    *)
(* and the names src/src/lib/twilio.ts exports.                            *)
(***************************************************************************)
\* The export statements of src/src/lib/twilio.ts
twilioExports == {"twilioClient", "twilioWhatsAppNumber", "sendWhatsApp", "sendBulkWhatsApp"}

\* import { name } from '@/lib/twilio': the binding, undefined (null) when the
\* module exports no such name
imported(name) == IF name \in twilioExports THEN <<name>> ELSE null

AlertResponse(status, code, body) == [status |-> status, code |-> code, body |-> body]

\* Rows of the table trips an alert can name: trip 1 has destination
\* coordinates, trip 2 has none, no other trip exists
alertTrip(tripId) ==
    CASE tripId = 1 -> <<[destination |-> Pune,
                          destinationCoordinates |-> formatCoordinates(Gazetteer(Pune))]>>
      [] tripId = 2 -> <<[destination |-> Ponda, destinationCoordinates |-> null]>>
      [] OTHER -> <<>>

\* A number of the body is <<"number", n>>, a string <<"string", s>>
IsNumber(v) == v # null /\ v[1] = "number"

\* The location of the alert, or the response that turns the request down;
\* reads lists the awaited selects.  A tripId the body lacks is 0.
locationOf(body) ==
    IF body.locationType = "current" THEN
        IF \/ body.currentLocation = null
           \/ ~IsNumber(body.currentLocation[1].lat)
           \/ ~IsNumber(body.currentLocation[1].lng)
           \/ body.currentLocation[1].name = <<>>
        THEN [ refused |-> AlertResponse(400, "MISSING_CURRENT_LOCATION", null),
               reads |-> <<>> ]
        ELSE [ refused |-> null, reads |-> <<>>,
               locationLat |-> body.currentLocation[1].lat[2],
               locationLng |-> body.currentLocation[1].lng[2],
               locationName |-> body.currentLocation[1].name,
               tripIdToSave |-> IF body.tripId = 0 THEN null ELSE body.tripId ]
    ELSE IF body.tripId = 0 THEN
        [ refused |-> AlertResponse(400, "MISSING_TRIP_ID", null), reads |-> <<>> ]
    ELSE LET trip == alertTrip(body.tripId)
         IN IF Len(trip) = 0 THEN
                [ refused |-> AlertResponse(404, "TRIP_NOT_FOUND", null),
                  reads |-> <<<<"selectTrip", Len(trip)>>>> ]
            ELSE IF trip[1].destinationCoordinates = null THEN
                [ refused |-> AlertResponse(400, "MISSING_DESTINATION_COORDINATES", null),
                  reads |-> <<<<"selectTrip", Len(trip)>>>> ]
            ELSE [ refused |-> null, reads |-> <<<<"selectTrip", Len(trip)>>>>,
                   locationLat |-> parseCoordinates(trip[1].destinationCoordinates)[1],
                   locationLng |-> parseCoordinates(trip[1].destinationCoordinates)[2],
                   locationName |-> trip[1].destination,
                   tripIdToSave |-> body.tripId ]

\* message || `EMERGENCY ALERT from ${userName}! Location: ... Coordinates: ...`
alertMessageOf(message, userName, location) ==
    IF message # null THEN message
    ELSE <<"EMERGENCY ALERT from", userName, location.locationName,
           location.locationLat, location.locationLng>>

\* The row inserted into emergencyAlerts
newAlertRow(id, userId, location, alertMessage, contacts, timestamp) ==
    [ id           |-> id,
      userId       |-> userId,
      tripId       |-> location.tripIdToSave,
      alertType    |-> "manual_sos",
      locationLat  |-> location.locationLat,
      locationLng  |-> location.locationLng,
      locationName |-> location.locationName,
      message      |-> alertMessage,
      sentTo       |-> ArrayOf([i \in 1..Len(contacts) |-> contacts[i].id], Len(contacts)),
      createdAt    |-> timestamp ]

\* contacts.map(contact => ({ phone: contact.phone, message: ... }))
smsRecipientsOf(contacts, alertMessage, userName) ==
    ArrayOf([i \in 1..Len(contacts) |->
                [ phone |-> contacts[i].phone,
                  message |-> <<alertMessage, "Contact", userName, "immediately">> ]],
            Len(contacts))

\* sendBulkWhatsApp awaited as a whole: the sends settle as answers says
sentBulk(list, deployment, answers) ==
    bulkReturn(list,
               ArrayOf([i \in 1..Len(list) |->
                           LET called == sendWhatsAppCalled(list[i].phone, list[i].message,
                                                            deployment.client,
                                                            deployment.whatsAppNumber)
                           IN IF called.state = "resolved" THEN called
                              ELSE sendWhatsAppSettled(called, answers[i])],
                       Len(list)))

\* smsResults.results.find(r => r.phone === contact.phone)?.success || false
smsDeliveredTo(results, phone) ==
    IF \E k \in 1..Len(results) : results[k].phone = phone
    THEN results[CHOOSE k \in 1..Len(results) :
                     results[k].phone = phone
                     /\ \A j \in 1..(k - 1) : results[j].phone # phone].success
    ELSE FALSE

\* The body of the 201 response
alertSent(newAlert, contacts, smsResults) ==
    [ success          |-> TRUE,
      alertId          |-> newAlert.id,
      contactsNotified |-> Len(contacts),
      smsDelivered     |-> smsResults.successful,
      smsFailed        |-> smsResults.failed,
      contacts         |-> ArrayOf([i \in 1..Len(contacts) |->
                                       [ id |-> contacts[i].id, phone |-> contacts[i].phone,
                                         smsDelivered |-> smsDeliveredTo(smsResults.results,
                                                                         contacts[i].phone) ]],
                                   Len(contacts)) ]

\* POST from the insert of the alert on
POSTAlertStored(newAlert, contacts, userName, read) ==
    LET sendBulkSMS == imported("sendBulkSMS")
        smsRecipients == smsRecipientsOf(contacts, newAlert.message, userName)
    IN /\ emergencyAlerts' = Append(emergencyAlerts, newAlert)
       /\ IF sendBulkSMS = null
          THEN \* TypeError: sendBulkSMS is not a function, caught by the handler
               /\ alertCalls' = read \o <<<<"insertAlert", newAlert.id>>>>
               /\ alertResponse' = <<AlertResponse(500, "", null)>>
          ELSE \E deployment \in Deployments,
                  answers \in [1..Len(contacts) -> TwilioAnswers] :
                   LET smsResults == sentBulk(smsRecipients, deployment, answers)[1]
                   IN /\ alertCalls' = read \o << <<"insertAlert", newAlert.id>>,
                                                 <<"sendBulk", smsResults.successful>> >>
                      /\ alertResponse' =
                             <<AlertResponse(201, "", alertSent(newAlert, contacts, smsResults))>>

\* POST from the select of the contacts on
POSTAlertContacts(userId, body, contacts, db) ==
    IF Len(contacts) = 0 THEN
        /\ alertResponse' = <<AlertResponse(400, "NO_EMERGENCY_CONTACTS", null)>>
        /\ alertCalls' = <<<<"selectContacts", 0>>>>
        /\ UNCHANGED emergencyAlerts
    ELSE LET location == locationOf(body)
             read == <<<<"selectContacts", Len(contacts)>>>> \o location.reads
                     \o <<<<"selectUser", 1>>>>
         IN IF location.refused # null THEN
                /\ alertResponse' = <<location.refused>>
                /\ alertCalls' = <<<<"selectContacts", Len(contacts)>>>> \o location.reads
                /\ UNCHANGED emergencyAlerts
            ELSE IF db = "insertThrows" THEN
                /\ alertResponse' = <<AlertResponse(500, "", null)>>
                /\ alertCalls' = read \o <<<<"insertAlert", 0>>>>
                /\ UNCHANGED emergencyAlerts
            ELSE POSTAlertStored(
                     newAlertRow(Len(emergencyAlerts) + 1, userId, location,
                                 alertMessageOf(body.message, userId, location),
                                 contacts, Len(emergencyAlerts) + 1),
                     contacts, userId, read)

\* POST /api/emergency-alerts
POSTAlert(session, body, contacts, db) ==
    /\ alertRequest' = <<[session |-> session, body |-> body, contacts |-> contacts, db |-> db]>>
    /\ IF session = null THEN
           /\ alertResponse' = <<AlertResponse(401, "UNAUTHORIZED", null)>>
           /\ alertCalls' = <<>>
           /\ UNCHANGED emergencyAlerts
       ELSE IF body.locationType \notin {"current", "destination"} THEN
           /\ alertResponse' = <<AlertResponse(400, "INVALID_LOCATION_TYPE", null)>>
           /\ alertCalls' = <<>>
           /\ UNCHANGED emergencyAlerts
       ELSE POSTAlertContacts(session[1], body, contacts, db)

MaxAlerts == 2     \* rows of the table emergencyAlerts
MaxContacts == 2   \* emergency contacts of the user

Here == <<[lat |-> <<"number", 15>>, lng |-> <<"number", 74>>, name |-> Goa]>>

AlertBody(locationType, currentLocation, tripId, message) ==
    [ locationType |-> locationType, currentLocation |-> currentLocation,
      tripId |-> tripId, message |-> message ]

\* The bodies of the requests
AlertBodies ==
    { AlertBody("current", Here, 0, null),
      AlertBody("current", Here, 1, <<"help">>),
      AlertBody("current", null, 0, null),
      AlertBody("current", <<[Here[1] EXCEPT !.lat = <<"string", <<"1", "5">>>>]>>, 0, null),
      AlertBody("current", <<[Here[1] EXCEPT !.name = <<>>]>>, 0, null),
      AlertBody("destination", null, 1, null),
      AlertBody("destination", null, 2, null),
      AlertBody("destination", null, 9, null),
      AlertBody("destination", null, 0, null),
      AlertBody("elsewhere", Here, 0, null),
      AlertBody("", Here, 0, null) }

\* The emergency contacts the user has: contact i has id 10 + i
RECURSIVE ContactLists(_)
ContactLists(n) ==
    IF n = 0 THEN {<<>>}
    ELSE ContactLists(n - 1)
         \cup { Append(l, [id |-> 10 + n, phone |-> p]) :
                    l \in {l \in ContactLists(n - 1) : Len(l) = n - 1},
                    p \in {<<"+1">>, <<"+2">>} }

TriggerAlert ==
    /\ Len(emergencyAlerts) < MaxAlerts
    /\ \E session \in {null, <<"u1">>}, body \in AlertBodies,
          contacts \in ContactLists(MaxContacts), db \in {"ok", "insertThrows"} :
        POSTAlert(session, body, contacts, db)
    /\ UNCHANGED <<dbVars, scoreVars, concVars, routeVars, combinedVars, notifyVars>>

NextAlerts == TriggerAlert

SpecAlerts == Init /\ [][NextAlerts]_vars

(***************************************************************************)
(* The matching pass of requests in flight together.                       *)
(***************************************************************************)
\* A stored match record without its timestamp
Link(r) == <<r.tripId, r.matchedTripId, r.matchScore, r.status>>

\* The records request owes: both directions for every candidate it scored at
\* 50 or more, in the order scored
RECURSIVE OwedFrom(_, _, _)
OwedFrom(scored, i, createdTripId) ==
    IF i > Len(scored) THEN <<>>
    ELSE (IF scored[i].score >= 50
          THEN << <<createdTripId, scored[i].id, scored[i].score, "pending">>,
                  <<scored[i].id, createdTripId, scored[i].score, "pending">> >>
          ELSE <<>>)
         \o OwedFrom(scored, i + 1, createdTripId)

Owed(request) == OwedFrom(request.scored, 1, request.createdTrip)

\* The stored records that request wrote: the clock moves with every candidate
\* query, so the timestamp of a batch tells whose it is
StoredBy(request) ==
    IF request.matchInserts = <<>> THEN <<>>
    ELSE SelectSeq(tripMatches, LAMBDA r : r.createdAt = request.matchInserts[1].createdAt)

Links(records) == [i \in 1..Len(records) |-> Link(records[i])]

\* C11: at every moment the stored match records of one trip creation are none
\* or the complete set, both directions for every qualifying candidate; the
\* creation makes at most one insert into tripMatches, and none when no
\* candidate qualifies.
C11_SingleBatch ==
    \A p \in 1..Len(requests) :
        /\ \/ StoredBy(requests[p]) = <<>>
           \/ Links(StoredBy(requests[p])) = Owed(requests[p])
        /\ requests[p].inserts <= 1
        /\ Owed(requests[p]) = <<>> => requests[p].inserts = 0
        /\ (requests[p].pc = "done" /\ requests[p].outcome = "ok")
               => Links(StoredBy(requests[p])) = Owed(requests[p])

\* A finished request stored the records of two qualifying candidates in one
\* insert while another request was in flight
C11_Witness ==
    \E p \in 1..Len(requests) :
        /\ requests[p].pc = "done"
        /\ requests[p].inserts = 1
        /\ Len(Owed(requests[p])) = 4
        /\ Len(StoredBy(requests[p])) = 4
        /\ InFlight # {}

(***************************************************************************)
(* Failures around the trip insert.                                        *)
(***************************************************************************)
MatchingFailures == {"selectThrows", "scoringThrows", "insertThrows"}

\* The request of this step stored a trip
StoresTrip == Len(trips') = Len(trips) + 1

\* The rows stored before the step are all still there, under their ids
KeepsTrips ==
    /\ Len(trips') >= Len(trips)
    /\ \A i \in 1..Len(trips) : trips'[i].id = i /\ trips'[i].userId = trips[i].userId

\* C12: a failure in the matching pass (candidate query, scoring, batch insert)
\* does not fail or undo the trip creation: the trip stays stored, no row is
\* ever removed, and the response is 201 with the created trip.
C12_MatchingFailureKeepsTrip ==
    [][ /\ KeepsTrips
        /\ (pass' # pass /\ pass'.outcome \in MatchingFailures)
              => /\ StoresTrip
                 /\ trips'[Len(trips')].id = pass'.trip
                 /\ trips'[Len(trips')].status = "active"
                 /\ response' = Response(201, "", pass'.trip)
                 /\ tripMatches' = tripMatches ]_vars

\* The batch insert of a pass with a qualifying candidate threw, and the trip
\* is stored and answered with 201
C12_Witness ==
    /\ pass.outcome = "insertThrows"
    /\ Len(pass.matchInserts) > 0
    /\ response = Response(201, "", pass.trip)
    /\ pass.trip = Len(trips)
    /\ trips[pass.trip].status = "active"
    /\ \A i \in 1..Len(tripMatches) :
           tripMatches[i].tripId # pass.trip /\ tripMatches[i].matchedTripId # pass.trip

\* The step is a trip-creation request being answered
Answers == <<response, calls, now>>' # <<response, calls, now>>

Called(called, service) == \E i \in 1..Len(called) : called[i][1] = service

Failed(called, service) == \E i \in 1..Len(called) : called[i] = <<service, FALSE>>

\* C13: when the geocoding of the source or of the destination fails, the
\* request is rejected with 400 GEOCODING_FAILED, a code no other outcome
\* carries; no routing request is made, no trip is stored and no match record
\* is created.
C13_GeocodingFailure ==
    [][ Answers =>
          /\ Failed(calls', "geocode")
                => /\ response' = Response(400, "GEOCODING_FAILED", 0)
                   /\ ~Called(calls', "route")
                   /\ ~Called(calls', "insertTrip")
                   /\ trips' = trips
                   /\ tripMatches' = tripMatches
          /\ response'.code = "GEOCODING_FAILED" => Failed(calls', "geocode") ]_vars

\* A request whose destination could not be geocoded was rejected while a trip
\* was stored
C13_Witness ==
    /\ calls = << <<"geocode", TRUE>>, <<"geocode", FALSE>> >>
    /\ response = Response(400, "GEOCODING_FAILED", 0)
    /\ Len(trips) = 1

\* The rules that read the route of the new trip
NewTripRouteTags == {"can_pickup_along_route", "can_dropoff_along_route"}

\* C14: a failure of the routing provider (failed request, code other than Ok,
\* empty route list) is not fatal: the trip is stored 'active' with a null
\* route geometry, the matching pass still runs, without the rules that need
\* the new trip's route, and the response is 201.
C14_RoutingFailureNotFatal ==
    [][ (Answers /\ Failed(calls', "route") /\ ~Failed(calls', "insertTrip")) =>
          /\ StoresTrip
          /\ trips'[Len(trips')].status = "active"
          /\ trips'[Len(trips')].routeGeometry = null
          /\ response' = Response(201, "", Len(trips'))
          /\ Called(calls', "select")
          /\ pass'.trip = Len(trips')
          /\ \A i \in 1..Len(pass'.scored) : \A tag \in NewTripRouteTags :
                ~HasTag(pass'.scored[i], tag) ]_vars

\* The router failed for the second trip; the pass scored the first trip, by
\* the first trip's own route among other rules, and stored the pair
C14_Witness ==
    /\ Failed(calls, "route")
    /\ Len(trips) = 2
    /\ trips[2].routeGeometry = null
    /\ trips[1].routeGeometry # null
    /\ response = Response(201, "", 2)
    /\ pass.trip = 2
    /\ Len(pass.scored) = 1
    /\ HasTag(pass.scored[1], "they_can_pickup")
    /\ Len(tripMatches) = 2

(***************************************************************************)
(* The match radius of stored trips.                                       *)
(***************************************************************************)
\* The step is a trip-creation request
Requested == Answers \/ radiusSent' # radiusSent

StoredRadiiInRange == \A i \in 1..Len(trips) : trips[i].matchRadius \in 1..100

\* The value sent is not a number: a string that is not a numeral
NotANumber(v) ==
    v[1] = "string" /\ (v[2] = <<>> \/ \E i \in 1..Len(v[2]) : ~IsDigit(v[2][i]))

\* num / den of the number sent, a numeral counting as its number
Sent(v) ==
    CASE v[1] = "number"   -> <<v[2], 1>>
      [] v[1] = "fraction" -> <<v[2], v[3]>>
      [] OTHER             -> <<LeadingDigits(v[2], 1, 0), 1>>

OutOfRange(v) == Sent(v)[1] < Sent(v)[2] \/ Sent(v)[1] > 100 * Sent(v)[2]

\* C15: every stored trip has a whole matchRadius in 1..100; a request without
\* matchRadius stores 10; a request whose matchRadius is not a number, is below
\* 1 or is above 100 is rejected with INVALID_MATCH_RADIUS and stores nothing.
C15_RadiusValidated ==
    /\ []StoredRadiiInRange
    /\ [][ Requested =>
             /\ (radiusSent' = null /\ StoresTrip) => trips'[Len(trips')].matchRadius = 10
             /\ (radiusSent' # null /\ response'.status # 401
                    /\ (NotANumber(radiusSent') \/ OutOfRange(radiusSent')))
                   => /\ response' = Response(400, "INVALID_MATCH_RADIUS", 0)
                      /\ trips' = trips ]_vars

(***************************************************************************)
(* Pairs created by requests in flight together.                           *)
(***************************************************************************)
\* The score the request of trip t gives the stored trip c
ScoreBy(request, c) ==
    calculateMatchScore(newTripInput(request.sanitizedData, request.sourceCoords,
                                     request.destCoords, request.routeGeometry),
                        candidateInput(trips[c])).score

\* The number of stored records from trip a to trip b
RecordsFromTo(a, b) ==
    Cardinality({i \in 1..Len(tripMatches) :
                    tripMatches[i].tripId = a /\ tripMatches[i].matchedTripId = b})

\* Both requests have responded and no call to the database failed
BothFinished(p, q) ==
    /\ requests[p].pc = "done" /\ requests[p].outcome = "ok"
    /\ requests[q].pc = "done" /\ requests[q].outcome = "ok"

\* Two active trips of different users that score 50 or more whichever of the
\* two requests does the scoring
QualifyingPair(p, q) ==
    /\ requests[p].session # requests[q].session
    /\ trips[requests[p].createdTrip].status = "active"
    /\ trips[requests[q].createdTrip].status = "active"
    /\ ScoreBy(requests[p], requests[q].createdTrip) >= 50
    /\ ScoreBy(requests[q], requests[p].createdTrip) >= 50

\* C16: two qualifying trips of different users created by requests that run
\* together are linked by at least one mirrored pair of match records once
\* both requests have finished without a persistence failure.
C16_AtLeastOncePair ==
    \A p \in 1..Len(requests) : \A q \in 1..Len(requests) :
        (p # q /\ BothFinished(p, q) /\ QualifyingPair(p, q))
            => /\ RecordsFromTo(requests[p].createdTrip, requests[q].createdTrip) >= 1
               /\ RecordsFromTo(requests[q].createdTrip, requests[p].createdTrip) >= 1

\* Both requests found the other's trip: the pair is stored twice
C16_Witness ==
    \E p \in 1..Len(requests) : \E q \in 1..Len(requests) :
        /\ p # q /\ BothFinished(p, q) /\ QualifyingPair(p, q)
        /\ RecordsFromTo(requests[p].createdTrip, requests[q].createdTrip) = 2
        /\ RecordsFromTo(requests[q].createdTrip, requests[p].createdTrip) = 2

(***************************************************************************)
(* The routes the analyzer returns.                                        *)
(***************************************************************************)
Returned == routeResponse # null

Labelled(label) ==
    {i \in 1..Len(routeResponse[1]) : routeResponse[1][i].optimizationType = label}

\* The alternative a returned route was taken from
CandidateOf(i) ==
    CHOOSE k \in 1..Len(alternativeRoutes) :
        alternativeRoutes[k].coordinates = routeResponse[1][i].coordinates

\* Estimated cost, and duration x traffic factor, of alternative k
CheapestScoreOf(k) ==
    calculateRouteScore(alternativeRoutes[k].distance, alternativeRoutes[k].duration,
                        routeRequest[1].transportMode, "cheapest").score

FastestScoreOf(k) ==
    calculateRouteScore(alternativeRoutes[k].distance, alternativeRoutes[k].duration,
                        routeRequest[1].transportMode, "fastest").score

Cheapest(k) == \A j \in 1..Len(alternativeRoutes) : ~Less(CheapestScoreOf(j), CheapestScoreOf(k))

Fastest(k) == \A j \in 1..Len(alternativeRoutes) : ~Less(FastestScoreOf(j), FastestScoreOf(k))

\* C17: for any non-empty list of alternatives exactly one returned route is
\* labelled 'cheapest', and it is an alternative whose estimated cost is minimal
\* over all alternatives.
C17_OneCheapest ==
    Returned =>
        /\ Len(alternativeRoutes) >= 1
        /\ Cardinality(Labelled("cheapest")) = 1
        /\ \A i \in Labelled("cheapest") :
              /\ CandidateOf(i) \in 1..Len(alternativeRoutes)
              /\ Cheapest(CandidateOf(i))
              /\ routeResponse[1][i].distance = alternativeRoutes[CandidateOf(i)].distance
              /\ routeResponse[1][i].duration = alternativeRoutes[CandidateOf(i)].duration
              /\ routeResponse[1][i].cost = CheapestScoreOf(CandidateOf(i))

\* Of three alternatives the last one alone is the cheapest, and it is returned
\* as 'cheapest'
C17_Witness ==
    /\ Returned
    /\ Len(alternativeRoutes) = 3
    /\ \A j \in 1..2 : Less(CheapestScoreOf(3), CheapestScoreOf(j))
    /\ \E i \in Labelled("cheapest") : CandidateOf(i) = 3

\* C18: a 'fastest' route is returned only when the alternative with the least
\* duration x traffic factor is another alternative than the cheapest pick, and
\* it is that alternative; with exactly one alternative the response is the
\* single 'cheapest' route.
C18_FastestOnlyIfDifferent ==
    Returned =>
        /\ Cardinality(Labelled("fastest")) <= 1
        /\ \A i \in Labelled("fastest") : \A c \in Labelled("cheapest") :
              /\ CandidateOf(i) # CandidateOf(c)
              /\ Fastest(CandidateOf(i))
        /\ Labelled("fastest") = {} =>
              \A c \in Labelled("cheapest") : Fastest(CandidateOf(c))
        /\ Len(alternativeRoutes) = 1 =>
              /\ Len(routeResponse[1]) = 1
              /\ routeResponse[1][1].optimizationType = "cheapest"

\* The fastest alternative is not the cheapest one, and both are returned
C18_Witness ==
    /\ Returned
    /\ Len(alternativeRoutes) = 2
    /\ \E i \in Labelled("fastest") : \E c \in Labelled("cheapest") :
          /\ CandidateOf(i) # CandidateOf(c)
          /\ Less(FastestScoreOf(CandidateOf(i)), FastestScoreOf(CandidateOf(c)))
          /\ Less(CheapestScoreOf(CandidateOf(c)), CheapestScoreOf(CandidateOf(i)))

\* cheapestScore / bestCheapestScore + fastestScore / bestFastestScore of
\* alternative k, given the alternatives best and quick with the least scores
BalancedScoreOf(k, best, quick) ==
    Plus(Over(CheapestScoreOf(k), CheapestScoreOf(best)),
         Over(FastestScoreOf(k), FastestScoreOf(quick)))

\* C19: a 'balanced' route is returned only when there are at least three
\* alternatives; it minimizes cheapestScore / bestCheapestScore + fastestScore /
\* bestFastestScore and is another alternative than the cheapest and the
\* fastest pick; so the response holds one to three routes taken from pairwise
\* different alternatives.
C19_BalancedDistinct ==
    Returned =>
        /\ \A i \in Labelled("balanced") :
              /\ Len(alternativeRoutes) >= 3
              /\ \A c \in Labelled("cheapest") \cup Labelled("fastest") :
                    CandidateOf(i) # CandidateOf(c)
              /\ \E best \in {k \in 1..Len(alternativeRoutes) : Cheapest(k)} :
                 \E quick \in {k \in 1..Len(alternativeRoutes) : Fastest(k)} :
                 \A j \in 1..Len(alternativeRoutes) :
                    Sign(BalancedScoreOf(j, best, quick),
                         BalancedScoreOf(CandidateOf(i), best, quick)) >= 0
        /\ Len(routeResponse[1]) \in 1..3
        /\ \A i \in 1..Len(routeResponse[1]) : \A j \in 1..Len(routeResponse[1]) :
              i # j => CandidateOf(i) # CandidateOf(j)

\* The key the routes are sorted by for the caller's preference
PreferenceKey(route) ==
    IF routeRequest[1].optimizationMode = "fastest"
    THEN Times(Whole(route.duration), route.trafficFactor)
    ELSE route.cost

\* C20: the returned list is in ascending order of the caller's preference key,
\* duration x trafficFactor for 'fastest' and cost for 'cheapest'; so the first
\* returned route has the least fastest-score, respectively the least cost, of
\* all the alternatives the provider supplied.
C20_SortedByPreference ==
    (Returned /\ routeRequest[1].optimizationMode \in {"fastest", "cheapest"}) =>
        /\ \A i \in 1..Len(routeResponse[1]) : \A j \in 1..Len(routeResponse[1]) :
              i < j => ~Less(PreferenceKey(routeResponse[1][j]),
                             PreferenceKey(routeResponse[1][i]))
        /\ routeRequest[1].optimizationMode = "fastest" =>
              /\ Fastest(CandidateOf(1))
              /\ PreferenceKey(routeResponse[1][1]) = FastestScoreOf(CandidateOf(1))
        /\ routeRequest[1].optimizationMode = "cheapest" =>
              /\ Cheapest(CandidateOf(1))
              /\ PreferenceKey(routeResponse[1][1]) = CheapestScoreOf(CandidateOf(1))

\* The caller prefers the fastest: the 'fastest' route, pushed second, comes
\* first and the 'cheapest' route, strictly slower, after it
C20_Witness ==
    /\ Returned
    /\ routeRequest[1].optimizationMode = "fastest"
    /\ Len(routeResponse[1]) >= 2
    /\ routeResponse[1][1].optimizationType = "fastest"
    /\ \E c \in Labelled("cheapest") :
          c > 1 /\ Less(PreferenceKey(routeResponse[1][1]), PreferenceKey(routeResponse[1][c]))

(***************************************************************************)
(* The fallback route of the analyzer.                                     *)
(***************************************************************************)
\* The request has been answered after the provider supplied no candidate
FellBack == routeResponse # null /\ osrmRoutes = <<>>

\* Haversine distance in metres between the two places of the request
PlacesApart ==
    Abs(Nominatim(routeRequest[1].destination).lat
        - Nominatim(routeRequest[1].boardingPoints[1]).lat) * 1000

\* C21: when the routing provider returns zero candidates, exactly one fallback
\* candidate is analyzed; its distance in metres is the haversine distance of
\* the two geocoded points times 1.3, and its duration in seconds is the time
\* that distance takes at 60 km/h (60000 m in 3600 s).
C21_FallbackNumerics ==
    FellBack =>
        /\ Len(alternativeRoutes) = 1
        /\ alternativeRoutes[1].distance * 10 = PlacesApart * 13
        /\ alternativeRoutes[1].duration * 60000 = alternativeRoutes[1].distance * 3600

(***************************************************************************)
(* The axis order of the returned coordinates.                             *)
(***************************************************************************)
Longitudes == { Nominatim(location).lon : location \in {"Panaji", "Mapusa", "Belgaum"} }

\* The pair is [latitude, longitude]
IsLatLon(pair) == pair[2] \in Longitudes /\ pair[1] \notin Longitudes

\* C30: every route the analyzer returns carries its coordinates as
\* [latitude, longitude] pairs, whether it came from the routing provider or
\* is the fallback route.
C30_LatLonOrder ==
    routeResponse # null =>
        \A i \in 1..Len(routeResponse[1]) :
            \A k \in 1..Len(routeResponse[1][i].coordinates) :
                IsLatLon(routeResponse[1][i].coordinates[k])

(***************************************************************************)
(* The combined route.                                                     *)
(***************************************************************************)
\* calculateCombinedRoute has sent a request to the routing provider
Built == combinedResponse # null /\ osrmExchange # null

HasSource(trip) == trip.sourceCoordinates # null
HasDestination(trip) == trip.destinationCoordinates # null

\* The waypoint is the pickup (dropoff) of the trip
PickupOf(w, trip) ==
    /\ w.type = "pickup" /\ w.userId = trip.userId /\ w.location = trip.source
    /\ <<w.lat, w.lon>> = Gazetteer(trip.source)

DropoffOf(w, trip) ==
    /\ w.type = "dropoff" /\ w.userId = trip.userId /\ w.location = trip.destination
    /\ <<w.lat, w.lon>> = Gazetteer(trip.destination)

\* The list has the pickups of the trips, in the order of the trips, and then
\* their dropoffs, in the order of the trips
PickupsThenDropoffs(waypoints, pickups, dropoffs) ==
    /\ Len(waypoints) = Len(pickups) + Len(dropoffs)
    /\ \A k \in 1..Len(pickups) : PickupOf(waypoints[k], pickups[k])
    /\ \A k \in 1..Len(dropoffs) : DropoffOf(waypoints[Len(pickups) + k], dropoffs[k])

\* The path of the request names the points lon,lat in that order
PathThrough(path, pickups, dropoffs) ==
    LET points == osrmWaypoints(path)
    IN /\ Len(points) = Len(pickups) + Len(dropoffs)
       /\ \A k \in 1..Len(pickups) :
              <<points[k][2], points[k][1]>> = Gazetteer(pickups[k].source)
       /\ \A k \in 1..Len(dropoffs) :
              <<points[Len(pickups) + k][2], points[Len(pickups) + k][1]>>
                  = Gazetteer(dropoffs[k].destination)

\* C22: the request to the routing provider names all pickups before all
\* dropoffs, the pickups and the dropoffs each in the order their trips were
\* supplied; the same ordered list is returned as 'waypoints'; the routing
\* profile and the returned transportMode are those of the first trip.
C22_PickupsBeforeDropoffs ==
    Built =>
        LET pickups == SelectSeq(memberTrips, HasSource)
            dropoffs == SelectSeq(memberTrips, HasDestination)
        IN /\ PathThrough(osrmExchange[1].request.coordinatesString, pickups, dropoffs)
           /\ osrmExchange[1].request.profile
                  = mapToOSRMProfile(memberTrips[1].transportMode)
           /\ combinedResponse[1].status = 200 =>
                  /\ PickupsThenDropoffs(combinedResponse[1].body[1].waypoints,
                                         pickups, dropoffs)
                  /\ combinedResponse[1].body[1].transportMode
                         = memberTrips[1].transportMode

\* Two trips with all four coordinates, the first by bicycle: four waypoints
C22_Witness ==
    /\ Built
    /\ combinedResponse[1].status = 200
    /\ Len(memberTrips) = 2
    /\ memberTrips[1].userId # memberTrips[2].userId
    /\ memberTrips[1].transportMode = cycling /\ memberTrips[2].transportMode = car
    /\ osrmExchange[1].request.profile = "bike"
    /\ Len(combinedResponse[1].body[1].waypoints) = 4

\* GET has called calculateCombinedRoute
Calculated == combinedResponse # null /\ memberTrips # <<>>

\* The routing provider supplied a route
Supplied == osrmExchange # null /\ osrmExchange[1].outcome = "Ok"

\* C23: when the routing provider errors, answers non-Ok or returns no route,
\* calculateCombinedRoute returns null and GET answers 500 CALCULATION_FAILED
\* with no route of any kind; a combined route is returned only when the
\* provider supplied one.
C23_NoRouteNoEstimate ==
    Calculated =>
        /\ ~Supplied => /\ combinedResponse[1].status = 500
                        /\ combinedResponse[1].code = "CALCULATION_FAILED"
                        /\ combinedResponse[1].body = null
        /\ combinedResponse[1].body # null =>
               /\ Supplied
               /\ combinedResponse[1].status = 200

\* Two trips with all four coordinates, and the provider finds no route
C23_Witness ==
    /\ Calculated
    /\ osrmExchange # null /\ osrmExchange[1].outcome = "NoRoute"
    /\ Len(osrmWaypoints(osrmExchange[1].request.coordinatesString)) = 4
    /\ combinedResponse[1].code = "CALCULATION_FAILED"

(***************************************************************************)
(* The bulk send.                                                          *)
(***************************************************************************)
\* Twilio is configured and has taken the message of recipient i
Delivered(i) ==
    /\ twilio.client # null /\ twilio.whatsAppNumber # null
    /\ deliveries[i].twilio = "sent"

\* C24: whatever sends fail, and also when Twilio is not configured,
\* sendBulkWhatsApp returns one result per recipient in recipient order, with
\* successful + failed = number of recipients; the result of a recipient is
\* the outcome of its own send, whatever happened to the others.
C24_BulkNeverFails ==
    bulkResult # null =>
        LET list == recipients[1]
            returned == bulkResult[1]
        IN /\ Len(returned.results) = Len(list)
           /\ \A i \in 1..Len(list) :
                  /\ returned.results[i].phone = list[i].phone
                  /\ returned.results[i].success = Delivered(i)
           /\ returned.successful = Cardinality({i \in 1..Len(list) : Delivered(i)})
           /\ returned.successful + returned.failed = Len(list)

\* Three recipients: the first send is refused, the second is taken, the
\* third throws
C24_Witness ==
    /\ bulkResult # null
    /\ Len(recipients[1]) = 3
    /\ deliveries[1].twilio = "error"
    /\ deliveries[2].twilio = "sent"
    /\ deliveries[3].twilio = "errorNoMessage"
    /\ bulkResult[1].successful = 1 /\ bulkResult[1].failed = 2
    /\ bulkResult[1].results[2].success

(***************************************************************************)
(* The SOS action.                                                         *)
(***************************************************************************)
\* The latest request is by a signed-in user with an emergency contact and a
\* valid location, and the database took the insert
ValidSos ==
    /\ alertResponse # null
    /\ alertRequest[1].session # null
    /\ alertRequest[1].body.locationType \in {"current", "destination"}
    /\ Len(alertRequest[1].contacts) >= 1
    /\ locationOf(alertRequest[1].body).refused = null
    /\ alertRequest[1].db = "ok"

CallsOf(name) == {k \in 1..Len(alertCalls) : alertCalls[k][1] = name}

\* The alert of the latest request is stored, and was before any message left
StoredBeforeDispatch ==
    /\ \E k \in CallsOf("insertAlert") :
           /\ \E a \in 1..Len(emergencyAlerts) :
                  /\ emergencyAlerts[a].id = alertCalls[k][2]
                  /\ emergencyAlerts[a].userId = alertRequest[1].session[1]
           /\ \A d \in CallsOf("sendBulk") : k < d

\* C25: for a signed-in user with at least one emergency contact and a valid
\* location, the alert is stored before any message is dispatched, and the
\* request is answered 201 success whatever the sends do, with smsDelivered
\* the number of delivered messages and smsDelivered + smsFailed the number of
\* contacts (0 and all of them when every send fails).
C25_SosSurvivesSendFailures ==
    ValidSos =>
        /\ StoredBeforeDispatch
        /\ alertResponse[1].status = 201
        /\ alertResponse[1].body.success
        /\ \E d \in CallsOf("sendBulk") : alertResponse[1].body.smsDelivered = alertCalls[d][2]
        /\ alertResponse[1].body.smsDelivered + alertResponse[1].body.smsFailed
               = Len(alertRequest[1].contacts)

(***************************************************************************)
(* The details record of calculateMatchScore.                              *)
(***************************************************************************)
HasDetail(key) == key \in DOMAIN matchResult[1].details

\* C26: in the details record, sourceDistance is present only when the
\* sources are within R, destinationDistance only when the destinations are
\* within R, routeProximity only when B's source is within R/2 of A's route.
C26_DetailsOnlyWhenFired ==
    Scored =>
        /\ HasDetail("sourceDistance") => Fires(1, tripA, tripB, LesserRadius)
        /\ HasDetail("destinationDistance") => Fires(2, tripA, tripB, LesserRadius)
        /\ HasDetail("routeProximity") => Fires(4, tripA, tripB, LesserRadius)

\* C26 as amended: sourceDistance is present exactly when both trips have
\* source coordinates, destinationDistance exactly when both have destination
\* coordinates, each holding the distance measured, within R or beyond it;
\* routeProximity is present exactly when B's source is within R/2 of A's
\* route, and holds that distance.
C26_DetailsWhenMeasured ==
    Scored =>
        /\ HasDetail("sourceDistance") <=> InputsPresent(1, tripA, tripB)
        /\ HasDetail("sourceDistance") =>
               matchResult[1].details["sourceDistance"] = RuleDistance(1, tripA, tripB)
        /\ HasDetail("destinationDistance") <=> InputsPresent(2, tripA, tripB)
        /\ HasDetail("destinationDistance") =>
               matchResult[1].details["destinationDistance"] = RuleDistance(2, tripA, tripB)
        /\ HasDetail("routeProximity") <=> Fires(4, tripA, tripB, LesserRadius)
        /\ HasDetail("routeProximity") =>
               matchResult[1].details["routeProximity"] = RuleDistance(4, tripA, tripB)

\* The sources lie beyond R and their distance is recorded; the destinations
\* lack a coordinate; B's source is on A's route
C26_Witness ==
    /\ Scored
    /\ InputsPresent(1, tripA, tripB)
    /\ RuleDistance(1, tripA, tripB) > LesserRadius
    /\ ~HasTag(matchResult[1], "starting_points_nearby")
    /\ HasDetail("sourceDistance")
    /\ ~InputsPresent(2, tripA, tripB) /\ ~HasDetail("destinationDistance")
    /\ HasDetail("routeProximity")

(***************************************************************************)
(* Validation of a trip-creation request before anything is called.        *)
(***************************************************************************)
\* The step is a trip-creation request
Arrives == received' # received \/ Answers

Unauthenticated(r) == r[1] = null

CarriesUserId(r) == r[2].hasUserId

MissesRequiredField(r) ==
    \E field \in {"source", "destination", "travelDate", "travelTime",
                  "transportMode", "optimizationMode"} : r[2][field] = <<>>

RadiusOutOfRange(r) ==
    r[2].matchRadius # null /\ ~NotANumber(r[2].matchRadius) /\ OutOfRange(r[2].matchRadius)

FailsValidation(r) ==
    Unauthenticated(r) \/ CarriesUserId(r) \/ MissesRequiredField(r) \/ RadiusOutOfRange(r)

\* The response owed to a request that fails validation: that of its first defect
ValidationError(r) ==
    IF Unauthenticated(r) THEN Response(401, "AUTHENTICATION_REQUIRED", 0)
    ELSE IF CarriesUserId(r) THEN Response(400, "USER_ID_NOT_ALLOWED", 0)
    ELSE IF MissesRequiredField(r) THEN Response(400, "MISSING_REQUIRED_FIELDS", 0)
    ELSE Response(400, "INVALID_MATCH_RADIUS", 0)

ValidationCodes ==
    {"AUTHENTICATION_REQUIRED", "USER_ID_NOT_ALLOWED", "MISSING_REQUIRED_FIELDS",
     "INVALID_MATCH_RADIUS"}

NothingCalled ==
    /\ calls' = <<>>
    /\ trips' = trips
    /\ tripMatches' = tripMatches

\* A request answered with a validation code has called nothing and written nothing
ValidationCodesBeforeCalls ==
    [][ (Arrives /\ response'.code \in ValidationCodes) => NothingCalled ]_vars

\* C27: a trip-creation request that is unauthenticated, carries userId or
\* user_id in the body, misses a required field, or has a matchRadius out of
\* range is answered with its specific error code, and no geocoder call, no
\* router call and no database write has been made for it.
C27_ValidationBeforeCalls ==
    [][ (Arrives /\ FailsValidation(received')) =>
            /\ response' = ValidationError(received')
            /\ NothingCalled ]_vars

(***************************************************************************)
(* The table of match records over a sequence of trip creations.           *)
(***************************************************************************)
\* The record (y, x) with the score and the creation time of the record (x, y)
Mirrors(r, m) ==
    /\ m.tripId = r.matchedTripId
    /\ m.matchedTripId = r.tripId
    /\ m.matchScore = r.matchScore
    /\ m.createdAt = r.createdAt

MirrorClosed ==
    \A i \in 1..Len(tripMatches) :
        \E j \in 1..Len(tripMatches) : Mirrors(tripMatches[i], tripMatches[j])

Persisted(id) == id \in 1..Len(trips) /\ trips[id].id = id

ReferencesPersisted ==
    \A i \in 1..Len(tripMatches) :
        Persisted(tripMatches[i].tripId) /\ Persisted(tripMatches[i].matchedTripId)

\* The request leaves every trip and every match record stored before it as it was
KeepsRows ==
    /\ Len(trips') >= Len(trips)
    /\ \A i \in 1..Len(trips) : trips'[i] = trips[i]
    /\ Len(tripMatches') >= Len(tripMatches)
    /\ \A i \in 1..Len(tripMatches) : tripMatches'[i] = tripMatches[i]

\* C28: after any sequence of trip creations, with geocoding, routing and
\* persistence failures, every stored match record (x, y, s, t) has its mirror
\* (y, x, s, t) stored, x and y are ids of persisted trips, and a trip creation
\* with its matching pass leaves every trip and every match record stored
\* before it unchanged.
C28_MirrorClosedRecords ==
    /\ [](MirrorClosed /\ ReferencesPersisted)
    /\ [][Arrives => KeepsRows]_vars

\* Two pairs of records are stored, by the passes of two requests, the first
\* pair referring to a trip that has left the status 'active' since
C28_Witness ==
    /\ Len(trips) = 3
    /\ Len(tripMatches) = 4
    /\ tripMatches[1].createdAt # tripMatches[3].createdAt
    /\ trips[tripMatches[1].matchedTripId].status = "inactive"
    /\ pass.trip = 3 /\ pass.outcome = "ok"
    /\ MirrorClosed

(***************************************************************************)
(* The range of the match score.                                           *)
(***************************************************************************)
\* 45 + 45 + 10 + 40 + 40 + 35 + 35 + 30 + 20
WeightsTotal ==
    LET sum[k \in 0..9] == IF k = 0 THEN 0 ELSE sum[k - 1] + RuleWeight[k]
    IN sum[9]

\* Rule k of calculateMatchScore applied to the score, reasons and details so far
ApplyRule(k, acc, A, B, MATCHING_CONFIG) ==
    CASE k = 1 -> Rule1(acc, A, B, MATCHING_CONFIG)
      [] k = 2 -> Rule2(acc, A, B, MATCHING_CONFIG)
      [] k = 3 -> Rule3(acc, A, B)
      [] k = 4 -> Rule4(acc, A, B, MATCHING_CONFIG)
      [] k = 5 -> Rule5(acc, A, B, MATCHING_CONFIG)
      [] k = 6 -> Rule6(acc, A, B, MATCHING_CONFIG)
      [] k = 7 -> Rule7(acc, A, B, MATCHING_CONFIG)
      [] k = 8 -> Rule8(acc, A, B)
      [] OTHER -> Rule9(acc, A, B)

\* The score before rule k and after each of the rules k..9
RECURSIVE ScoresFrom(_, _, _, _, _)
ScoresFrom(k, acc, A, B, MATCHING_CONFIG) ==
    IF k > 9 THEN <<acc.score>>
    ELSE <<acc.score>> \o ScoresFrom(k + 1, ApplyRule(k, acc, A, B, MATCHING_CONFIG),
                                      A, B, MATCHING_CONFIG)

\* scores[k] before rule k, scores[k + 1] after it
WithinWeights(scores, returned) ==
    /\ \A k \in 1..9 : scores[k + 1] - scores[k] \in 0..RuleWeight[k]
    /\ returned = scores[10]
    /\ returned \in 0..WeightsTotal

\* C29: for match radii of 1 or more, calculateMatchScore returns a whole
\* score from 0 to 300, and each of the nine rules adds a whole number from 0
\* to its weight, so that no rule lowers the score.
C29_ScoreWithinWeights ==
    (Scored /\ tripA.matchRadius >= 1 /\ tripB.matchRadius >= 1) =>
        /\ WeightsTotal = 300
        /\ WithinWeights(
               ScoresFrom(1, [score |-> 0, reasons |-> <<>>, details |-> EmptyDetails],
                          tripA, tripB,
                          getMatchingConfig(effectiveMatchRadius(tripA, tripB))),
               matchResult[1].score)

\* Every rule adds its whole weight and the score is 300
C29_Witness ==
    /\ Scored
    /\ \A k \in 1..9 : StepAdds(k) = RuleWeight[k]
    /\ matchResult[1].score = 300

\* A proximity rule fires at the edge of its radius and adds nothing, another
\* adds a part of its weight
C29_EdgeAddsNothing ==
    /\ Scored
    /\ \E k \in ProximityRules :
           Fires(k, tripA, tripB, LesserRadius) /\ StepAdds(k) = 0
    /\ \E k \in ProximityRules : StepAdds(k) > 0 /\ StepAdds(k) < RuleWeight[k]

====
